---- MODULE Spec2Model ----
(***************************************************************************)
(* Dripfyre backend: the session store (session.service.js over the Redis  *)
(* wrapper), the object storage (storage.service.js), the multi-agent      *)
(* orchestration (coordinator.agent.js with the caption, hashtag and image *)
(* agents) and the request handlers that drive them (mvp.controller.js in  *)
(* its two versions, action.controller.js).                                *)
(*                                                                         *)
(* JavaScript values are modelled as tagged records so that `undefined`,   *)
(* `null`, strings and arrays can be told apart; objects are functions     *)
(* whose DOMAIN is the set of own keys, so that an absent key, a key bound *)
(* to undefined and a key bound to an empty array are three different      *)
(* things, as they are for the spread operator and JSON.stringify.         *)
(***************************************************************************)
EXTENDS FiniteSets, Integers, Sequences, TLC

(* ----------------------------- bounds ---------------------------------- *)
\* number of service calls / requests issued in one behaviour
MaxOps == 4
\* number of media entries a session may hold
MaxMedia == 1
\* number of requests (edit, process) issued in a run
MaxRequests == 2
\* number of addToConversationHistory calls issued in a run
MaxAppends == 6
\* number of session-service calls the concurrent requests issue in a run
MaxCalls == 3
\* the expiry window of a session key, in steps of the store's clock
SessionExpiry == 2

VARIABLES
  redis,      \* key-value store: session id -> stored (JSON) session
  files,      \* object storage: the set of locators that exist
  clock,      \* logical time, the source of new Date()
  nops,       \* number of operations issued so far
  nreqs,      \* number of requests issued so far
  nextFile,   \* the number of the next file identifier storage hands out
  lastStore,  \* the storeProcessedContent call that returned last
  req,        \* the request in flight: its locals and its position
  handler,    \* the edit handler the routes use
  appended,   \* history: every turn handed to addToConversationHistory, in order
  lastRead,   \* what getConversationHistoryForAgent returned last
  calls,      \* the session-service call each concurrent request is inside
  transcriber, \* the transcription service: its providers and its last call
  imagen      \* the generateImageWithRetry call: its loop and what it came to

vars == <<redis, files, clock, nops, nreqs, nextFile, lastStore, req, handler,
          appended, lastRead, calls, transcriber, imagen>>

(* --------------------------- JavaScript values ------------------------- *)
Undefined == [t |-> "undefined", v |-> <<>>]
Null == [t |-> "null", v |-> <<>>]
Str(s) == [t |-> "string", v |-> <<s>>]
Arr(xs) == [t |-> "array", v |-> xs]
Bool(b) == [t |-> "boolean", v |-> <<IF b THEN "true" ELSE "false">>]
Num(n) == [t |-> "number", v |-> <<ToString(n)>>]

\* the object {}
EmptyObj == [k \in {} |-> Undefined]

\* o.k (reading an absent key gives undefined)
Get(o, k) == IF k \in DOMAIN o THEN o[k] ELSE Undefined

\* o.k = v
Put(o, k, v) == [j \in DOMAIN o \cup {k} |-> IF j = k THEN v ELSE o[j]]

\* {...P, ...R}: every own key of R, then the keys of P that R does not have
Spread(P, R) == [k \in DOMAIN P \cup DOMAIN R |-> IF k \in DOMAIN R THEN R[k] ELSE P[k]]

\* JSON.parse(JSON.stringify(o)): keys bound to undefined are dropped
JsonObject(o) == [k \in {j \in DOMAIN o : o[j] # Undefined} |-> o[k]]

(* ------------------------------- strings ------------------------------- *)
\* String.prototype.includes
Includes(s, kw) ==
  \E i \in 1..(Len(s) - Len(kw) + 1) : SubSeq(s, i, i + Len(kw) - 1) = kw

\* keywords.some(kw => s.includes(kw))
Some(kws, s) == \E kw \in kws : Includes(s, kw)

CharAt(s, i) == SubSeq(s, i, i)

\* String.prototype.toLowerCase
RECURSIVE ToLowerCase(_)
ToLowerCase(s) ==
  IF s = "" THEN ""
  ELSE LET upper == "ABCDEFGHIJKLMNOPQRSTUVWXYZ"
           lower == "abcdefghijklmnopqrstuvwxyz"
           hits == {i \in 1..26 : CharAt(upper, i) = CharAt(s, 1)}
       IN (IF hits = {} THEN CharAt(s, 1) ELSE CharAt(lower, CHOOSE i \in hits : TRUE))
          \o ToLowerCase(SubSeq(s, 2, Len(s)))

\* String.prototype.trim
Trim(s) ==
  LET solid == {i \in 1..Len(s) : CharAt(s, i) # " "}
  IN IF solid = {} THEN ""
     ELSE SubSeq(s, CHOOSE i \in solid : \A j \in solid : i <= j,
                    CHOOSE i \in solid : \A j \in solid : i >= j)
IsDigit(s, i) == i >= 1 /\ i <= Len(s) /\ CharAt(s, i) \in {"0", "1", "2", "3", "4", "5", "6", "7", "8", "9"}
DigitValue(c) == CHOOSE d \in 0..9 : ToString(d) = c

\* the instructions a user may speak or type (lower case, as after toLowerCase)
Instructions ==
  { "make the caption funnier",
    "only 3 hashtags",
    "change the photo filter",
    "generate new image of a cat" }

(* ------------------------- transcription service ----------------------- *)
ActionKeywords ==
  << [name |-> "create_reel", kws |-> {"reel", "video", "clip", "reels"}],
     [name |-> "create_post", kws |-> {"post", "image", "picture", "photo", "pic"}],
     [name |-> "create_story", kws |-> {"story", "stories"}] >>
StyleKeywords ==
  << [name |-> "aesthetic", kws |-> {"aesthetic", "aesthetics", "pretty", "beautiful"}],
     [name |-> "minimal", kws |-> {"minimal", "minimalist", "simple", "clean"}],
     [name |-> "vibrant", kws |-> {"vibrant", "colorful", "bright", "bold"}] >>
ThemeKeywords ==
  << [name |-> "motivation", kws |-> {"motivation", "motivational", "inspire"}],
     [name |-> "fitness", kws |-> {"fitness", "gym", "workout", "exercise"}],
     [name |-> "travel", kws |-> {"travel", "trip", "vacation", "tour"}],
     [name |-> "food", kws |-> {"food", "recipe", "cooking"}],
     [name |-> "fashion", kws |-> {"fashion", "style", "outfit", "clothes"}],
     [name |-> "lifestyle", kws |-> {"lifestyle", "daily", "life"}] >>
MoodKeywords ==
  << [name |-> "happy", kws |-> {"happy", "joy", "cheerful", "excited"}],
     [name |-> "calm", kws |-> {"calm", "peaceful", "relaxing", "chill"}],
     [name |-> "energetic", kws |-> {"energetic", "energy", "hype", "pump", "intense"}],
     [name |-> "inspiring", kws |-> {"inspiring", "motivational", "uplifting"}] >>
PlatformKeywords ==
  << [name |-> "instagram", kws |-> {"instagram", "insta", "ig"}],
     [name |-> "facebook", kws |-> {"facebook", "fb"}],
     [name |-> "youtube", kws |-> {"youtube", "yt"}] >>

\* the first entry of the table one of whose keywords the transcript includes
FirstKey(table, s) ==
  LET hits == {i \in 1..Len(table) : Some(table[i].kws, s)}
  IN IF hits = {} THEN "null"
     ELSE table[CHOOSE i \in hits : \A j \in hits : i <= j].name

\* transcriptionService.parseIntent
ParseIntent(transcript) ==
  LET lowerTranscript == ToLowerCase(transcript)
  IN [ defined |-> TRUE,
       rawTranscript |-> transcript,
       action |-> FirstKey(ActionKeywords, lowerTranscript),
       style |-> FirstKey(StyleKeywords, lowerTranscript),
       theme |-> FirstKey(ThemeKeywords, lowerTranscript),
       mood |-> FirstKey(MoodKeywords, lowerTranscript),
       platform |-> FirstKey(PlatformKeywords, lowerTranscript) ]

\* the value `undefined` where an intent is expected
UndefinedIntent ==
  [ defined |-> FALSE, rawTranscript |-> "", action |-> "null", style |-> "null",
    theme |-> "null", mood |-> "null", platform |-> "null" ]

IntentTable == [t \in Instructions |-> ParseIntent(t)]

(* --------------------------- coordinator agent ------------------------- *)
Plan(c, h, i) == [caption |-> c, hashtags |-> h, imageEditor |-> i]
Plans == {Plan(c, h, i) : c \in BOOLEAN, h \in BOOLEAN, i \in BOOLEAN}

\* a selection that depends on the requests served before
SelectsByRequestCount(intent) == Plan(TRUE, TRUE, nreqs > 1)

\* determineRequiredAgentsWithHeuristics
DetermineRequiredAgentsWithHeuristics(intent) ==
  LET transcript == ToLowerCase(intent.rawTranscript)
      isCaptionOnly ==
        /\ Some({"caption", "description", "write caption", "create caption"}, transcript)
        /\ ~Includes(transcript, "hashtag")
        /\ ~Includes(transcript, "tag")
        /\ ~Includes(transcript, "#")
      isHashtagOnly ==
        /\ Some({"hashtag", "tags", "#", "hash tag"}, transcript)
        /\ ~Includes(transcript, "caption")
        /\ ~Includes(transcript, "description")
      needsImageEdit ==
        /\ Some({"edit", "change", "modify", "update", "make it", "filter",
                 "aesthetic", "brighten", "enhance image"}, transcript)
        /\ Some({"image", "photo", "picture"}, transcript)
      first == IF isCaptionOnly THEN Plan(TRUE, FALSE, FALSE)
               ELSE IF isHashtagOnly THEN Plan(FALSE, TRUE, FALSE)
               ELSE IF needsImageEdit THEN Plan(FALSE, FALSE, TRUE)
               ELSE Plan(TRUE, TRUE, FALSE)
  IN IF intent.action = "edit_image" \/ needsImageEdit
     THEN [first EXCEPT !.imageEditor = TRUE]
     ELSE first

\* the flag is the truthiness of the value
IsTruthy(value) ==
  value \notin {Bool(FALSE), Num(0), Str(""), Null, Undefined}

\* parseBoolean of classifyAgentsWithLLM
ParseBoolean(value) ==
  IF value.t = "boolean" THEN value = Bool(TRUE)
  ELSE IF value.t = "string"
  THEN ToLowerCase(Trim(value.v[1])) \in {"true", "yes", "y", "1"}
  ELSE IF value.t = "number" THEN value = Num(1)
  ELSE FALSE

\* what the routing LLM call gives: it throws, its content is empty, its
\* content holds no {...}, the {...} is not JSON, or it is a JSON object
LlmFailures == {"throws", "empty", "noJson", "badJson"}
LlmResponse(kind, c, h, i) == [kind |-> kind, caption |-> c, hashtags |-> h, imageEditor |-> i]

\* the responses the requests are run with: two failures, and every object
\* of three booleans
LlmOutcomes ==
  {LlmResponse(k, Undefined, Undefined, Undefined) : k \in {"throws", "empty"}}
  \cup {LlmResponse("json", Bool(c), Bool(h), Bool(i)) :
          c \in BOOLEAN, h \in BOOLEAN, i \in BOOLEAN}

\* classifyAgentsWithLLM: it throws, it returns null, or it returns a plan
ClassifyAgentsWithLLM(response) ==
  IF response.kind = "throws" THEN [kind |-> "throws", plan |-> Plan(FALSE, FALSE, FALSE)]
  ELSE IF response.kind \in LlmFailures THEN [kind |-> "null", plan |-> Plan(FALSE, FALSE, FALSE)]
  ELSE [kind |-> "plan",
        plan |-> Plan(ParseBoolean(response.caption), ParseBoolean(response.hashtags),
                      ParseBoolean(response.imageEditor))]

\* the classifier failure reaches the caller of determineRequiredAgents as
\* an empty plan
SurfacesFailure(intent, response) ==
  ClassifyAgentsWithLLM(response).plan

\* determineRequiredAgents: the LLM selection if there is one, else the heuristics
DetermineRequiredAgents(intent, response) ==
  LET llmSelection == ClassifyAgentsWithLLM(response)
  IN IF llmSelection.kind = "plan" THEN llmSelection.plan
     ELSE DetermineRequiredAgentsWithHeuristics(intent)

(* ----------------------------- hashtag agent --------------------------- *)
\* the end of the run of digits that starts at i
RECURSIVE DigitRunEnd(_, _)
DigitRunEnd(s, i) == IF IsDigit(s, i + 1) THEN DigitRunEnd(s, i + 1) ELSE i

\* parseInt of the digits s[i..j]
RECURSIVE DigitRunValue(_, _, _)
DigitRunValue(s, i, j) ==
  IF j < i THEN 0 ELSE 10 * DigitRunValue(s, i, j - 1) + DigitValue(CharAt(s, j))

\* the first position at or after i that holds no blank
RECURSIVE SkipBlanks(_, _)
SkipBlanks(s, i) == IF i <= Len(s) /\ CharAt(s, i) = " " THEN SkipBlanks(s, i + 1) ELSE i

StartsAt(s, i, w) == i + Len(w) - 1 <= Len(s) /\ SubSeq(s, i, i + Len(w) - 1) = w

Least(S) == CHOOSE i \in S : \A j \in S : i <= j

\* the leftmost match of /(\d+)\s*word/: its number, or -1 when there is none
NumberBefore(s, word) ==
  LET starts == {i \in 1..Len(s) :
                   IsDigit(s, i) /\ StartsAt(s, SkipBlanks(s, DigitRunEnd(s, i) + 1), word)}
  IN IF starts = {} THEN -1
     ELSE DigitRunValue(s, Least(starts), DigitRunEnd(s, Least(starts)))

\* the leftmost match of /word\s*(\d+)/: its number, or -1 when there is none
NumberAfter(s, word) ==
  LET starts == {i \in 1..Len(s) :
                   StartsAt(s, i, word) /\ IsDigit(s, SkipBlanks(s, i + Len(word)))}
  IN IF starts = {} THEN -1
     ELSE LET d == SkipBlanks(s, Least(starts) + Len(word))
          IN DigitRunValue(s, d, DigitRunEnd(s, d))

WordNumbers == <<"one", "two", "three", "four", "five", "six", "seven", "eight", "nine", "ten">>

\* the largest count parseHashtagCount accepts
MaxHashtagCount == 30
\* the count generateHashtags uses when none is asked for
DefaultHashtagCount == 10

\* the instructions the hashtag count is parsed from
CountInstructions ==
  { "", "generate 3 hashtags", "only five hashtags", "50 hashtags", "31 hashtags",
    "30 hashtags please", "0 hashtags", "just 7", "ONLY 2", "exactly 12", "4 tags",
    "only 40 or just 6", "give me ten hashtags", "just one", "hashtags for my trip" }

\* the first number a pattern finds is the count, whatever its size
AcceptsAnyCount(transcript) ==
  LET t == ToLowerCase(transcript)
      found == << NumberBefore(t, "hashtag"), NumberAfter(t, "only"), NumberAfter(t, "just"),
                  NumberAfter(t, "exactly"), NumberBefore(t, "tag") >>
      good == {i \in 1..5 : found[i] > 0}
  IN IF good # {} THEN found[Least(good)] ELSE 0

\* hashtagGeneratorAgent.parseHashtagCount; 0 stands for null
ParseHashtagCount(transcript) ==
  LET lowerTranscript == ToLowerCase(transcript)
      found == << NumberBefore(lowerTranscript, "hashtag"),
                  NumberAfter(lowerTranscript, "only"),
                  NumberAfter(lowerTranscript, "just"),
                  NumberAfter(lowerTranscript, "exactly"),
                  NumberBefore(lowerTranscript, "tag") >>
      good == {i \in 1..5 : found[i] > 0 /\ found[i] <= MaxHashtagCount}
      words == {n \in 1..10 :
                  \/ Includes(lowerTranscript, WordNumbers[n] \o " hashtag")
                  \/ Includes(lowerTranscript, "only " \o WordNumbers[n])
                  \/ Includes(lowerTranscript, "just " \o WordNumbers[n])}
  IN IF good # {} THEN found[Least(good)]
     ELSE IF words # {} THEN Least(words)
     ELSE 0

TargetCount(transcript) ==
  IF ParseHashtagCount(transcript) # 0 THEN ParseHashtagCount(transcript)
  ELSE DefaultHashtagCount

TargetTable == [t \in Instructions \cup CountInstructions |-> TargetCount(t)]

\* Math.ceil(n * tenths / 10)
CeilTenths(n, tenths) == (n * tenths + 9) \div 10

Take(xs, n) == SubSeq(xs, 1, IF n < Len(xs) THEN n ELSE Len(xs))

\* [...new Set(xs)]: the first occurrence of every element, in order
RECURSIVE Unique(_)
Unique(xs) ==
  IF xs = <<>> THEN <<>>
  ELSE LET init == Unique(SubSeq(xs, 1, Len(xs) - 1))
           last == xs[Len(xs)]
       IN IF \E i \in 1..Len(init) : init[i] = last THEN init ELSE Append(init, last)

\* hashtags.join(' ')
RECURSIVE Join(_)
Join(xs) ==
  IF xs = <<>> THEN ""
  ELSE IF Len(xs) = 1 THEN xs[1]
  ELSE xs[1] \o " " \o Join(Tail(xs))

\* the trending list of the theme, in one of the orders the shuffle may leave
TrendingHashtags(theme, reversed) ==
  LET list == CASE theme = "motivation" -> <<"#motivation", "#motivationalquotes", "#mindset", "#goals", "#success">>
                [] theme = "fitness" -> <<"#fitness", "#gym", "#workout", "#fitfam", "#fitspo">>
                [] theme = "travel" -> <<"#travel", "#wanderlust", "#travelphotography", "#travelgram", "#explore">>
                [] theme = "food" -> <<"#foodie", "#foodporn", "#instafood", "#foodstagram", "#yummy">>
                [] theme = "fashion" -> <<"#fashion", "#style", "#ootd", "#fashionista", "#styleinspo">>
                [] theme = "lifestyle" -> <<"#lifestyle", "#lifestyleblogger", "#dailylife", "#instagood", "#photooftheday">>
                [] OTHER -> <<"#viral", "#trending", "#fyp", "#foryou", "#explore">>
  IN IF reversed THEN [i \in 1..Len(list) |-> list[Len(list) + 1 - i]] ELSE list

\* the day new Date().getDay() indexes
Today == "monday"

NicheHashtags(intent) ==
  (IF intent.mood # "null" THEN <<"#" \o intent.mood \o "vibes", "#" \o intent.mood \o "mood">> ELSE <<>>)
  \o (IF intent.style # "null" THEN <<"#" \o intent.style, "#" \o intent.style \o "style">> ELSE <<>>)
  \o (IF intent.action = "create_reel" THEN <<"#reels", "#reelsinstagram", "#reelsindia", "#reelitfeelit">>
      ELSE IF intent.action = "create_story" THEN <<"#instastory", "#storytime", "#stories">>
      ELSE <<>>)
  \o <<"#" \o Today, "#" \o Today \o "motivation">>

\* what generateAIHashtags returns: the tags of the model, or [] when the
\* call fails (the error is caught there)
AiHashtagOutcomes ==
  {[failed |-> TRUE, tags |-> <<>>],
   [failed |-> FALSE, tags |-> <<"#x", "#y", "#x", "#z">>]}

\* generateHashtags: the hashtags list of its result
GenerateHashtags(intent, ai, reversed) ==
  LET targetCount == TargetTable[intent.rawTranscript]
  IN IF targetCount <= 3 THEN Take(Unique(ai.tags), targetCount)
     ELSE Take(Unique(Take(ai.tags, CeilTenths(targetCount, 5))
                      \o Take(TrendingHashtags(intent.theme, reversed), CeilTenths(targetCount, 3))
                      \o Take(NicheHashtags(intent), CeilTenths(targetCount, 2))),
               targetCount)

(* ---------------------------- image editor agent ----------------------- *)
\* a Buffer is "null", "empty" (length 0) or "data" (image bytes)
\* needsAIEditing
NeedsAIEditing(intent) ==
  LET transcript == intent.rawTranscript
      isOnlyAboutText ==
        /\ Includes(transcript, "hashtag") \/ Includes(transcript, "caption")
        /\ ~Some({"image", "picture", "photo", "aesthetic", "filter", "bright",
                  "color", "vibrant"}, transcript)
  IN ~isOnlyAboutText

\* instructions the image editor is run on
ImageInstructions ==
  { "change the photo filter", "make the picture brighter", "crop it for youtube",
    "sharpen it", "make the caption funnier", "only 3 hashtags" }

NeedsAITable ==
  [t \in Instructions \cup ImageInstructions |-> NeedsAIEditing(ParseIntent(t))]

\* an image: its buffer, and the operations that were run on it, in order
Image(buffer, ops) == [buffer |-> buffer, ops |-> ops]

\* the AI edit failed: the input buffer is returned as it is
AiFailureReturnsInput(buffer, intent, ai, sharpOk) ==
  IF buffer # "null" /\ ai = "image" THEN Image("data", <<"ai">>)
  ELSE IF buffer # "null" /\ ai = "emptyImage" THEN Image("empty", <<"ai">>)
  ELSE Image(buffer, <<>>)

\* resizeForPlatform (op "resize") and enhanceImage (op "enhance"): sharp
\* rejects a missing or empty input and may reject the bytes; the error is
\* logged and the input buffer is returned
Sharpened(img, op, sharpOk) ==
  IF img.buffer = "data" /\ sharpOk THEN Image("data", Append(img.ops, op))
  ELSE Image(img.buffer, Append(img.ops, op \o " error"))

\* basicProcessing
BasicProcessing(buffer, intent, sharpOk) ==
  LET input == Image(buffer, <<>>)
      resized == IF intent.platform # "null" THEN Sharpened(input, "resize", sharpOk)
                 ELSE input
  IN Sharpened(resized, "enhance", sharpOk)

\* what the image model call gives for an input it can read: an image, an
\* image of no bytes, or no image at all (it throws, or answers without one)
ImageAiOutcomes == {"image", "emptyImage", "throws"}

\* applyAIEditing: the generated image, else the basic processing
ApplyAIEditing(buffer, intent, ai, sharpOk) ==
  IF buffer = "null" THEN BasicProcessing(buffer, intent, sharpOk)
  ELSE IF ai = "image" THEN Image("data", <<"ai">>)
  ELSE IF ai = "emptyImage" THEN Image("empty", <<"ai">>)
  ELSE BasicProcessing(buffer, intent, sharpOk)

\* processImage: the buffer of its result, with what was run to make it
ProcessImage(buffer, intent, ai, sharpOk) ==
  IF NeedsAITable[intent.rawTranscript]
  THEN ApplyAIEditing(buffer, intent, ai, sharpOk)
  ELSE BasicProcessing(buffer, intent, sharpOk)

(* ------------------------------ sessions ------------------------------- *)
SessionIds == {"s1"}

\* session.metadata.processedContent: null, or an object
NullContent == [null |-> TRUE, fields |-> EmptyObj]
Content(o) == [null |-> FALSE, fields |-> o]

\* {...session.metadata.processedContent}: spreading null gives {}
ContentFields(pc) == IF pc.null THEN EmptyObj ELSE pc.fields

NewSession(sessionId, now) ==
  [ sessionId |-> sessionId,
    createdAt |-> now,
    updatedAt |-> 0,
    status |-> "active",
    uploadedMedia |-> <<>>,
    processedContent |-> NullContent,
    voiceTranscripts |-> <<>>,
    conversationHistory |-> [caption |-> <<>>, hashtags |-> <<>>],
    ttl |-> 0 ]   \* the key's remaining time to live: only the store sets it

\* what redisService.set writes and redisService.get reads back
JsonSession(session) ==
  [session EXCEPT !.processedContent =
     IF @.null THEN @ ELSE Content(JsonObject(@.fields))]

\* the entry setex leaves under the key: the value, expiring after the window
Stored(session) == [JsonSession(session) EXCEPT !.ttl = SessionExpiry]

\* a write that leaves the key's time to live as it was
SetKeepsTtl(r, key, session) ==
  [k \in DOMAIN r \cup {key} |-> IF k = key THEN JsonSession(session) ELSE r[k]]

\* redisService.set(key, session, SESSION_EXPIRY), when the command succeeds
RedisSet(r, key, session) ==
  [k \in DOMAIN r \cup {key} |-> IF k = key THEN Stored(session) ELSE r[k]]

\* storeProcessedContent without the merge: the new content replaces the old
StoreReplaces(session, content, now) ==
  [session EXCEPT !.processedContent = Content(content),
                  !.status = "processed",
                  !.updatedAt = now]

\* the merge alone: status and updatedAt stay as they were read
StoresContentOnly(session, content, now) ==
  [session EXCEPT !.processedContent = Content(Spread(ContentFields(@), content))]

\* the session object storeProcessedContent builds and writes
StoredContent(session, content, now) ==
  [session EXCEPT !.processedContent = Content(Spread(ContentFields(@), content)),
                  !.status = "processed",
                  !.updatedAt = now]

AddedMedia(session, mediaInfo, now) ==
  [session EXCEPT !.uploadedMedia = Append(@, mediaInfo),
                  !.updatedAt = now]

\* addTranscriptToSession: the record pushed holds the whole transcription
\* result (with the parsed intent) under the key `transcript`
AddedTranscript(session, text, intent, now) ==
  [session EXCEPT !.voiceTranscripts =
                     Append(@, [transcript |-> [transcript |-> text, parsedIntent |-> intent],
                                timestamp |-> now]),
                  !.updatedAt = now]

\* the number of turns addToConversationHistory keeps
HistoryCap == 10

\* the cap keeps the oldest turns instead of the newest
KeepsOldest(xs, n) == SubSeq(xs, 1, IF n < Len(xs) THEN n ELSE Len(xs))

\* the cap drops one turn, the oldest, however many were pushed
DropsOldestTurn(xs, n) == IF Len(xs) > n THEN Tail(xs) ELSE xs

\* xs.slice(-n)
LastN(xs, n) == IF Len(xs) > n THEN SubSeq(xs, Len(xs) - n + 1, Len(xs)) ELSE xs

\* the two turns one addToConversationHistory call pushes
Exchange(userMessage, aiResponse, now) ==
  << [role |-> "user", content |-> userMessage, timestamp |-> now],
     [role |-> "assistant", content |-> aiResponse, timestamp |-> now] >>

\* the exchange is pushed to the history of every capability
AddedToEveryHistory(session, agentType, userMessage, aiResponse, now) ==
  [session EXCEPT !.conversationHistory =
                     [c \in DOMAIN @ |-> @[c] \o Exchange(userMessage, aiResponse, now)],
                  !.updatedAt = now]

\* addToConversationHistory
AddedHistory(session, agentType, userMessage, aiResponse, now) ==
  LET pushed == session.conversationHistory[agentType]
                  \o Exchange(userMessage, aiResponse, now)
  IN [session EXCEPT !.conversationHistory[agentType] =
                        IF Len(pushed) > HistoryCap THEN LastN(pushed, HistoryCap) ELSE pushed,
                     !.updatedAt = now]

\* session.metadata.processedContent?.processedMedia, when it is an array
HasProcessedMedia(session) ==
  Get(ContentFields(session.processedContent), "processedMedia").t = "array"
ProcessedMediaOf(session) ==
  IF HasProcessedMedia(session)
  THEN Get(ContentFields(session.processedContent), "processedMedia").v
  ELSE <<>>

\* session.metadata.uploadedMedia.map(m => m.url)
UploadedUrls(session) == [i \in 1..Len(session.uploadedMedia) |-> session.uploadedMedia[i].url]

(* ------------------------------- storage ------------------------------- *)
\* the locator uploadFile gives the n-th file written to the processed folder
ProcessedLocator(n) == "p" \o ToString(n)

Indices(n) == [i \in 1..n |-> i]
Range(xs) == {xs[i] : i \in 1..Len(xs)}

\* the loop over the old locators ends at the first deleteFile that fails
StopsAtFirstFailure(old, present, refused) ==
  LET failed == {i \in 1..Len(old) : old[i] \notin present \/ old[i] \in refused}
      last == IF failed = {} THEN Len(old)
              ELSE CHOOSE i \in failed : \A j \in failed : i <= j
  IN [i \in 1..last |->
        [op |-> "delete", url |-> old[i], ok |-> old[i] \in present /\ old[i] \notin refused]]

\* the deleteFile calls on the locators `old`, in order; a call returns
\* false when the file is missing or storage refuses
DeleteEvents(old, present, refused) ==
  [i \in 1..Len(old) |->
     [op |-> "delete", url |-> old[i], ok |-> old[i] \in present /\ old[i] \notin refused]]

\* old processed images are deleted whatever was saved
DeletesAlways(old, newUrls) == Len(old) > 0

\* hasProcessedImages && processedMediaUrls.length > 0
DeletesOld(old, newUrls) == Len(old) > 0 /\ Len(newUrls) > 0

\* the processed images a session refers to
OldProcessed(s) == IF s \in DOMAIN redis THEN Range(ProcessedMediaOf(redis[s])) ELSE {}

\* the files left after the events
AfterEvents(present, events) ==
  (present \cup {events[i].url : i \in {j \in 1..Len(events) : events[j].op = "upload" /\ events[j].ok}})
  \ {events[i].url : i \in {j \in 1..Len(events) : events[j].op = "delete" /\ events[j].ok}}

(* ------------------------------ inputs --------------------------------- *)
\* partial results a caller of storeProcessedContent may pass
CaptionValues == {Str("A"), Str("B"), Undefined, Null}
HashtagValues == {Arr(<<"#x">>), Arr(<<>>), Undefined}
PartialResults ==
  UNION { {EmptyObj},
          {Put(EmptyObj, "caption", c) : c \in CaptionValues},
          {Put(EmptyObj, "hashtags", h) : h \in HashtagValues},
          {Put(Put(EmptyObj, "caption", c), "hashtags", h) :
              c \in CaptionValues, h \in HashtagValues} }

UploadLocators == {"u1", "u2"}

NoStore == [called |-> FALSE, sessionId |-> "s1", prev |-> NullContent, content |-> EmptyObj]

(* --------------------------- the request in flight --------------------- *)
\* the object executeAgentsInParallel builds: `keys` are its own keys
NoResults ==
  [ keys |-> {}, caption |-> "", hashtags |-> <<>>, hashtagsFormatted |-> "",
    processedMedia |-> <<>>, agentsUsed |-> <<>> ]

NoTasks == [hashtags |-> "none", image |-> "none"]

\* a results object that names every capability from the start
EveryKey ==
  [NoResults EXCEPT !.keys = {"status", "caption", "captionVariations", "hashtags",
                              "hashtagsFormatted", "processedMedia"}]

\* const results = { status: 'completed' }
InitialResults == [NoResults EXCEPT !.keys = {"status"}]

IdleReq ==
  [ pc |-> "idle", kind |-> "none", phase |-> "normal", sessionId |-> "s1",
    session |-> NewSession("s1", 0), transcript |-> "", intent |-> UndefinedIntent,
    mediaFiles |-> <<>>, genUrl |-> "", plan |-> Plan(FALSE, FALSE, FALSE),
    results |-> NoResults, tasks |-> NoTasks, captionCall |-> "none",
    hashtagArg |-> "", hashtagAi |-> "none", imageAi |-> <<>>,
    log |-> <<>>, response |-> 0, targetCount |-> 0,
    llm |-> LlmResponse("none", Undefined, Undefined, Undefined) ]

Free == req.pc \in {"idle", "done"}

\* the handler answers and ends
Respond(r, code) == [r EXCEPT !.pc = "done", !.response = code]

\* the files the edit handler works on: the processed images of the session
\* if it has any, else its uploads; each is read from disk
LoadMedia(session, present) ==
  LET urls == ProcessedMediaOf(session)
      hasProcessedImages == Len(urls) > 0
      imagesToUse ==
        IF hasProcessedImages
        THEN [i \in 1..Len(urls) |->
                [fileId |-> "processed_" \o ToString(i - 1), url |-> urls[i], mimeType |-> "image/jpeg"]]
        ELSE session.uploadedMedia
  IN [i \in 1..Len(imagesToUse) |->
        [ fileId |-> imagesToUse[i].fileId,
          url |-> imagesToUse[i].url,
          mimetype |-> imagesToUse[i].mimeType,
          buffer |-> IF imagesToUse[i].url \in present THEN "data" ELSE "null" ]]

\* detectImageGenerationRequest
DetectImageGenerationRequest(transcript) ==
  Some({"generate new image", "create new image", "generate image", "create image",
        "generate a new", "create a new", "make a new image", "new image of",
        "generate picture", "create picture"}, transcript)

WantsNewImageTable == [t \in Instructions |-> DetectImageGenerationRequest(t)]

\* the uploadFile calls for the usable buffers of `media`, in order
SaveEvents(media, upFail, n) ==
  LET idx == SelectSeq(Indices(Len(media)), LAMBDA i : media[i].buffer = "data")
  IN [k \in 1..Len(idx) |->
        [op |-> "upload", url |-> ProcessedLocator(n + idx[k] - 1), ok |-> idx[k] \notin upFail]]

\* the locators of the uploads that succeeded, in order
SavedUrls(events) ==
  LET idx == SelectSeq(Indices(Len(events)), LAMBDA k : events[k].op = "upload" /\ events[k].ok)
  IN [k \in 1..Len(idx) |-> events[idx[k]].url]

IntentValue(intent) ==
  IF intent.defined THEN [t |-> "object", v |-> <<intent.rawTranscript>>] ELSE Undefined

\* the caption and hashtag fields the edit handler copies from the result:
\* only those that are not undefined
WithGenerated(content, results) ==
  LET c1 == IF "caption" \in results.keys THEN Put(content, "caption", Str(results.caption)) ELSE content
      c2 == IF "captionVariations" \in results.keys THEN Put(c1, "captionVariations", Arr(<<>>)) ELSE c1
      c3 == IF "hashtags" \in results.keys THEN Put(c2, "hashtags", Arr(results.hashtags)) ELSE c2
  IN IF "hashtagsFormatted" \in results.keys
     THEN Put(c3, "hashtagsFormatted", Str(results.hashtagsFormatted)) ELSE c3

\* the processedMedia the coordinator edit handler stores without new images:
\* the existing processed images
KeepsProcessedMedia(newUrls, session) ==
  IF Len(newUrls) > 0 THEN newUrls
  ELSE IF Len(ProcessedMediaOf(session)) > 0 THEN ProcessedMediaOf(session)
  ELSE UploadedUrls(session)

\* the processedMedia the coordinator edit handler stores
EditProcessedMedia(newUrls, session) ==
  IF Len(newUrls) > 0 THEN newUrls ELSE UploadedUrls(session)

EditContent(r, newUrls, now) ==
  WithGenerated(
    [ intent |-> IntentValue(r.intent),
      transcript |-> Str(r.transcript),
      processedMedia |-> Arr(EditProcessedMedia(newUrls, r.session)),
      originalMedia |-> Arr(UploadedUrls(r.session)),
      processedAt |-> Str(ToString(now)),
      autoGenerated |-> Bool(FALSE),
      voiceEdited |-> Bool(TRUE) ],
    r.results)

GeneratedContent(r, now) ==
  WithGenerated(
    [ intent |-> IntentValue(r.intent),
      transcript |-> Str(r.transcript),
      processedMedia |-> Arr(<<r.genUrl>>),
      originalMedia |-> Arr(UploadedUrls(r.session)),
      generatedImage |-> Str(r.genUrl),
      processedAt |-> Str(ToString(now)),
      autoGenerated |-> Bool(FALSE),
      voiceEdited |-> Bool(TRUE) ],
    r.results)

\* the two addToConversationHistory calls that follow the store
WithHistory(session, r, now) ==
  LET s1 == IF "caption" \in r.results.keys
            THEN AddedHistory(session, "caption", r.transcript, r.results.caption, now)
            ELSE session
  IN IF "hashtags" \in r.results.keys
     THEN AddedHistory(s1, "hashtags", r.transcript,
                       IF r.results.hashtagsFormatted # "" THEN r.results.hashtagsFormatted
                       ELSE Join(r.results.hashtags), now)
     ELSE s1

\* the turns those calls hand over, added to the record of all turns
WithAppended(log, s, r, now) ==
  LET hashtagText == IF r.results.hashtagsFormatted # "" THEN r.results.hashtagsFormatted
                     ELSE Join(r.results.hashtags)
      l1 == IF "caption" \in r.results.keys
            THEN [log EXCEPT ![<<s, "caption">>] = @ \o Exchange(r.transcript, r.results.caption, now)]
            ELSE log
  IN IF "hashtags" \in r.results.keys
     THEN [l1 EXCEPT ![<<s, "hashtags">>] = @ \o Exchange(r.transcript, hashtagText, now)]
     ELSE l1

(* --------------------------- transcription ----------------------------- *)
\* what a transcribe call came to: the providers it tried, in order, the
\* provider whose result it returned, and whether it threw
Transcription(tried, provider, threw) ==
  [tried |-> tried, provider |-> provider, threw |-> threw]

\* TranscriptionService.transcribe: `deepgram` and `openai` say which clients
\* the constructor made, `dgOk` and `whOk` whether the provider call succeeds
Transcribe(deepgram, openai, useWhisper, dgOk, whOk) ==
  LET first == IF deepgram /\ ~useWhisper THEN <<"deepgram">> ELSE <<>>
  IN IF first # <<>> /\ dgOk THEN Transcription(first, "deepgram", FALSE)
     ELSE IF openai
     THEN Transcription(first \o <<"whisper">>, IF whOk THEN "whisper" ELSE "none", ~whOk)
     ELSE Transcription(first, "none", TRUE)

\* both providers configured, no call made yet
NoTranscription ==
  [ deepgram |-> TRUE, openai |-> TRUE, called |-> FALSE, useWhisper |-> FALSE,
    dgOk |-> FALSE, whOk |-> FALSE, result |-> Transcription(<<>>, "none", FALSE) ]

(* ------------------------ image generation retries --------------------- *)
\* the largest maxRetries argument a call is made with
MaxRetriesTried == 3

\* generateImageWithRetry(prompt, options = {}, maxRetries = 2)
DefaultMaxRetries == 2

\* the ways a generateImage call fails
ImagenErrors == {"timeout", "rejected", "unavailable"}

\* the loop goes round once more than maxRetries + 1 times
RetriesOnceMore(i, maxRetries) == i <= maxRetries + 1

\* for (let i = 0; i <= maxRetries; i++)
LoopContinues(i, maxRetries) == i <= maxRetries

\* a generateImageWithRetry call: the loop counter, what every generateImage
\* call came to, in order, the error caught last, the milliseconds waited, and
\* what the call returned (the number of the attempt whose images it returns)
\* or threw
NoImagen ==
  [ pc |-> "idle", maxRetries |-> DefaultMaxRetries, i |-> 0, attempts |-> <<>>,
    lastError |-> [attempt |-> 0, error |-> "none"], waited |-> 0, result |-> 0,
    thrown |-> [attempt |-> 0, error |-> "none"] ]

\* the loop condition is evaluated with the counter at i
LoopAt(call, i) ==
  IF LoopContinues(i, call.maxRetries)
  THEN [call EXCEPT !.i = i, !.pc = "call"]
  ELSE [call EXCEPT !.i = i, !.pc = "threw", !.thrown = call.lastError]

(* ----------------- session-service calls of concurrent requests -------- *)
\* the requests that are inside the session service at the same time
Clients == {"a", "b"}

\* validateSession and the four session-service methods that write a session
CallOps == {"validate", "addMedia", "addTranscript", "store", "history"}

\* the contents the concurrent requests hand to storeProcessedContent
StoreContents ==
  { EmptyObj,
    Put(EmptyObj, "caption", Str("a caption")),
    Put(EmptyObj, "hashtags", Arr(<<"#sunset">>)) }

\* the media record each request adds
MediaOf(c) ==
  LET url == IF c = "a" THEN "u1" ELSE "u2"
  IN [fileId |-> url, url |-> url, mimeType |-> "image/jpeg"]

\* a call: where it is (`pc`), what getSession gave it (`found`, `snapshot`),
\* the session object it built and hands to redisService.set (`session`),
\* and how it ended (`result`, and `wrote`: the store took the write)
IdleCall ==
  [ pc |-> "idle", op |-> "validate", sessionId |-> "s1", content |-> EmptyObj,
    found |-> FALSE, snapshot |-> NewSession("s1", 0),
    session |-> NewSession("s1", 0), now |-> 0, result |-> "none", wrote |-> FALSE ]

NoCalls == [c \in Clients |-> IdleCall]

\* the session object a method builds from the session it read
Mutated(op, c, session, content, now) ==
  CASE op = "addMedia" -> AddedMedia(session, MediaOf(c), now)
    [] op = "addTranscript" ->
         AddedTranscript(session, "make the caption funnier",
                         IntentTable["make the caption funnier"], now)
    [] op = "store" -> StoredContent(session, content, now)
    [] op = "history" ->
         AddedHistory(session, "caption", "make it funnier", "a funnier caption", now)

\* redisService.get: the parsed value, or null when the key is absent and
\* also when the command or the parse throws
RedisGetFinds(r, key, getOk) == getOk /\ key \in DOMAIN r

\* a request enters validateSession or a session-service method
SessionCall(c, op, s, content) ==
  /\ calls[c].pc \in {"idle", "done"}
  /\ nops < MaxCalls
  /\ nops' = nops + 1
  /\ calls' = [calls EXCEPT ![c] =
       [IdleCall EXCEPT !.pc = "get", !.op = op, !.sessionId = s, !.content = content]]
  /\ UNCHANGED <<redis, clock, files, nreqs, nextFile, lastStore, req, handler,
                 appended, lastRead, transcriber, imagen>>

\* getSession answers.  validateSession goes on to create or to extend; a
\* method throws 'Session not found' on null, and otherwise builds the session
\* object it is about to write, stamped with new Date()
SessionGet(c, getOk) ==
  /\ calls[c].pc = "get"
  /\ LET call == calls[c]
         s == call.sessionId
         found == RedisGetFinds(redis, s, getOk)
         read == [call EXCEPT !.found = found,
                              !.snapshot = IF found THEN redis[s] ELSE @]
     IN IF call.op = "validate" /\ found
        THEN /\ calls' = [calls EXCEPT ![c] = [read EXCEPT !.pc = "expire"]]
             /\ UNCHANGED clock
        ELSE IF call.op = "validate"
        THEN /\ calls' = [calls EXCEPT ![c] =
                  [read EXCEPT !.pc = "set", !.now = clock,
                               !.session = NewSession(s, clock)]]
             /\ clock' = clock + 1
        ELSE IF ~found
        THEN /\ calls' = [calls EXCEPT ![c] =
                  [read EXCEPT !.pc = "done", !.result = "notFound"]]
             /\ UNCHANGED clock
        ELSE /\ calls' = [calls EXCEPT ![c] =
                  [read EXCEPT !.pc = "set", !.now = clock,
                               !.session = Mutated(call.op, c, redis[s], call.content, clock)]]
             /\ clock' = clock + 1
  /\ UNCHANGED <<redis, nops, files, nreqs, nextFile, lastStore, req, handler,
                 appended, lastRead, transcriber, imagen>>

\* the write of a method done under a lock on the session: the method's
\* change is applied to the session stored at the time of the write
SessionSetUnderLock(c, setOk) ==
  /\ calls[c].pc = "set"
  /\ LET call == calls[c]
         s == call.sessionId
         session == IF call.op = "validate" \/ s \notin DOMAIN redis THEN call.session
                    ELSE Mutated(call.op, c, redis[s], call.content, call.now)
     IN redis' = IF setOk THEN RedisSet(redis, s, session) ELSE redis
  /\ calls' = [calls EXCEPT ![c] = [@ EXCEPT !.pc = "done", !.result = "ok", !.wrote = setOk]]
  /\ UNCHANGED <<clock, nops, files, nreqs, nextFile, lastStore, req, handler,
                 appended, lastRead, transcriber, imagen>>

\* a failed write is an error of the method: it ends with the error instead
\* of returning its session object
SessionSetThrows(c, setOk) ==
  /\ calls[c].pc = "set"
  /\ redis' = IF setOk THEN RedisSet(redis, calls[c].sessionId, calls[c].session)
              ELSE redis
  /\ calls' = [calls EXCEPT ![c] =
       [@ EXCEPT !.pc = "done", !.result = IF setOk THEN "ok" ELSE "error",
                 !.wrote = setOk]]
  /\ UNCHANGED <<clock, nops, files, nreqs, nextFile, lastStore, req, handler,
                 appended, lastRead, transcriber, imagen>>

\* redisService.set answers: the write landed, or it failed and false came
\* back, which no caller looks at; the method returns its session object
SessionSet(c, setOk) ==
  /\ calls[c].pc = "set"
  /\ redis' = IF setOk THEN RedisSet(redis, calls[c].sessionId, calls[c].session)
              ELSE redis
  /\ calls' = [calls EXCEPT ![c] = [@ EXCEPT !.pc = "done", !.result = "ok", !.wrote = setOk]]
  /\ UNCHANGED <<clock, nops, files, nreqs, nextFile, lastStore, req, handler,
                 appended, lastRead, transcriber, imagen>>

\* extendSession: redisService.expire on the key; on a key that is gone, and
\* on a failed command, nothing changes and the request goes on
SessionExpire(c, expireOk) ==
  /\ calls[c].pc = "expire"
  /\ LET s == calls[c].sessionId
         landed == expireOk /\ s \in DOMAIN redis
     IN /\ redis' = IF landed THEN [redis EXCEPT ![s].ttl = SessionExpiry] ELSE redis
        /\ calls' = [calls EXCEPT ![c] =
             [@ EXCEPT !.pc = "done", !.result = "ok", !.wrote = landed]]
  /\ UNCHANGED <<clock, nops, files, nreqs, nextFile, lastStore, req, handler,
                 appended, lastRead, transcriber, imagen>>

\* the store's clock advances one step: every key is one step nearer to its
\* expiry, and a key whose time has run out is removed
TimePasses ==
  /\ DOMAIN redis # {}
  /\ redis' = [k \in {j \in DOMAIN redis : redis[j].ttl > 1} |->
                 [redis[k] EXCEPT !.ttl = @ - 1]]
  /\ UNCHANGED <<calls, clock, nops, files, nreqs, nextFile, lastStore, req, handler,
                 appended, lastRead, transcriber, imagen>>

(* ------------------------------ actions -------------------------------- *)
Tick == /\ nops < MaxOps
        /\ nops' = nops + 1
        /\ clock' = clock + 1

\* the two versions of the edit handler the repository holds
Handlers == {"coordinator", "aiService"}

\* the capabilities that keep a conversation history
Capabilities == {"caption", "hashtags"}

\* the sessions of the history checks
HistorySessions == {"s1", "s2"}

NoTurns == [k \in HistorySessions \X Capabilities |-> <<>>]

Init ==
  /\ handler = "coordinator"
  /\ redis = [k \in {} |-> NewSession("s1", 0)]
  /\ files = {}
  /\ clock = 1
  /\ nops = 0
  /\ nreqs = 0
  /\ nextFile = 1
  /\ lastStore = NoStore
  /\ req = IdleReq
  /\ appended = NoTurns
  /\ lastRead = <<>>
  /\ calls = NoCalls
  /\ transcriber = NoTranscription
  /\ imagen = NoImagen

\* session.middleware.js validateSession: get, or create on first use
ValidateSession(s) ==
  /\ Free
  /\ IF s \in DOMAIN redis
     THEN UNCHANGED <<redis, clock, nops, req>>
     ELSE /\ Tick
          /\ redis' = RedisSet(redis, s, NewSession(s, clock))
          /\ req' = IdleReq
  /\ UNCHANGED <<imagen, transcriber, calls, handler, appended, lastRead, files, nreqs, nextFile, lastStore>>

\* an upload: the file is written to the uploads folder and recorded
AddMediaToSession(s, url) ==
  /\ Free
  /\ Tick
  /\ s \in DOMAIN redis
  /\ Len(redis[s].uploadedMedia) < MaxMedia
  /\ url \notin files
  /\ files' = files \cup {url}
  /\ redis' = RedisSet(redis, s,
       AddedMedia(redis[s], [fileId |-> url, url |-> url, mimeType |-> "image/jpeg"], clock))
  /\ req' = IdleReq
  /\ UNCHANGED <<imagen, transcriber, calls, handler, appended, lastRead, nreqs, nextFile, lastStore>>

\* sessionService.storeProcessedContent(sessionId, content)
StoreProcessedContent(s, content) ==
  /\ Free
  /\ Tick
  /\ s \in DOMAIN redis
  /\ redis' = RedisSet(redis, s, StoredContent(redis[s], content, clock))
  /\ lastStore' = [called |-> TRUE, sessionId |-> s,
                   prev |-> redis[s].processedContent, content |-> content]
  /\ req' = IdleReq
  /\ UNCHANGED <<imagen, transcriber, calls, handler, appended, lastRead, files, nreqs, nextFile>>

\* POST /:sessionId/edit (coordinator version), up to the orchestrate call
EditBegin(s, audio, transcribed, generated, refused) ==
  /\ handler = "coordinator"
  /\ Free
  /\ nreqs < MaxRequests
  /\ nreqs' = nreqs + 1
  /\ LET r0 == [IdleReq EXCEPT !.kind = "edit", !.sessionId = s]
     IN IF s \notin DOMAIN redis
        THEN /\ req' = Respond(r0, 404)
             /\ UNCHANGED <<redis, files, nextFile, clock, nops>>
        ELSE IF audio = "none" /\ Len(redis[s].voiceTranscripts) = 0
        THEN /\ req' = Respond([r0 EXCEPT !.session = redis[s]], 400)
             /\ UNCHANGED <<redis, files, nextFile, clock, nops>>
        ELSE IF audio = "none"
        \* the latest record's `transcript` is the transcription object and it
        \* has no `parsedIntent`: transcript.toLowerCase is not a function
        THEN /\ req' = Respond([r0 EXCEPT !.session = redis[s]], 500)
             /\ UNCHANGED <<redis, files, nextFile, clock, nops>>
        ELSE IF ~transcribed
        THEN /\ req' = Respond([r0 EXCEPT !.session = redis[s]], 500)
             /\ UNCHANGED <<redis, files, nextFile, clock, nops>>
        ELSE LET session == redis[s]
                 intent == IntentTable[audio]
                 r1 == [r0 EXCEPT !.session = session, !.transcript = audio,
                                  !.intent = intent, !.pc = "classify"]
                 url == ProcessedLocator(nextFile)
                 events == <<[op |-> "upload", url |-> url, ok |-> TRUE]>>
                             \o (IF HasProcessedMedia(session)
                                 THEN DeleteEvents(ProcessedMediaOf(session), files, refused)
                                 ELSE <<>>)
             IN /\ Tick
                /\ redis' = RedisSet(redis, s, AddedTranscript(session, audio, intent, clock))
                /\ IF WantsNewImageTable[audio] /\ generated
                   THEN /\ files' = AfterEvents(files, events)
                        /\ nextFile' = nextFile + 1
                        /\ req' = [r1 EXCEPT !.phase = "generated", !.genUrl = url,
                                            !.log = events,
                                            !.mediaFiles = << [fileId |-> url, url |-> url,
                                                               mimetype |-> "image/jpeg",
                                                               buffer |-> "data"] >>]
                   ELSE /\ req' = [r1 EXCEPT !.mediaFiles = LoadMedia(session, files)]
                        /\ UNCHANGED <<files, nextFile>>
  /\ UNCHANGED <<imagen, transcriber, calls, handler, appended, lastRead, lastStore>>

\* orchestrate throws: the generate-new-image path falls through to the
\* normal edit flow, every other caller answers 500
OrchestrateThrows(r) ==
  IF r.kind = "edit" /\ r.phase = "generated"
  THEN [r EXCEPT !.pc = "classify", !.phase = "normal",
                 !.mediaFiles = LoadMedia(r.session, files),
                 !.plan = Plan(FALSE, FALSE, FALSE), !.results = NoResults,
                 !.tasks = NoTasks, !.captionCall = "none", !.hashtagArg = "",
                 !.hashtagAi = "none", !.imageAi = <<>>]
  ELSE Respond(r, 500)

\* executeAgentsInParallel, to the choice of the agents
DetermineAgents(llm) ==
  /\ req.pc = "classify"
  /\ req' = IF ~req.intent.defined
            THEN OrchestrateThrows(req)
            ELSE LET plan == DetermineRequiredAgents(req.intent, llm)
                 IN [req EXCEPT !.plan = plan,
                                !.llm = llm,
                                !.results = InitialResults,
                                !.captionCall = IF plan.caption THEN "running" ELSE "none",
                                !.pc = IF plan.caption THEN "caption" ELSE "fanout"]
  /\ UNCHANGED <<imagen, transcriber, calls, handler, appended, lastRead, redis, files, clock, nops, nreqs, nextFile, lastStore>>

\* the text the caption model returns for an instruction
CaptionFor(transcript) == "caption: " \o transcript

\* what the caption model does: it answers with a caption, it answers with
\* nothing but text that cleanCaption removes, or the call throws
CaptionResponses == {"caption", "metaOnly", "throws"}

\* generateCaption: cleanCaption(response.content.trim())
GenerateCaption(response, transcript) ==
  IF response = "metaOnly" THEN "" ELSE CaptionFor(transcript)

\* the caption agent records its own turn in the session as it settles
CaptionSettlesAndRemembers(response) ==
  /\ req.pc = "caption"
  /\ req' = IF response # "throws"
            THEN [req EXCEPT !.results.keys = @ \cup {"caption", "captionVariations"},
                             !.results.caption = GenerateCaption(response, req.transcript),
                             !.captionCall = "done",
                             !.pc = "fanout"]
            ELSE OrchestrateThrows([req EXCEPT !.captionCall = "threw"])
  /\ redis' = IF response # "throws" /\ req.sessionId \in DOMAIN redis
              THEN RedisSet(redis, req.sessionId,
                     AddedHistory(redis[req.sessionId], "caption", req.transcript,
                                  GenerateCaption(response, req.transcript), clock))
              ELSE redis
  /\ UNCHANGED <<imagen, transcriber, calls, handler, appended, lastRead, files, clock, nops, nreqs, nextFile, lastStore>>

\* step 1: the caption agent settles; generateCaption rethrows its error
CaptionSettles(response) ==
  /\ req.pc = "caption"
  /\ req' = IF response # "throws"
            THEN [req EXCEPT !.results.keys = @ \cup {"caption", "captionVariations"},
                             !.results.caption = GenerateCaption(response, req.transcript),
                             !.captionCall = "done",
                             !.pc = "fanout"]
            ELSE OrchestrateThrows([req EXCEPT !.captionCall = "threw"])
  /\ UNCHANGED <<imagen, transcriber, calls, handler, appended, lastRead, redis, files, clock, nops, nreqs, nextFile, lastStore>>

\* the fan-out starts without the caption
StartsAtOnce(r) == r.pc \in {"caption", "fanout"}

\* the caption has to have settled before the fan-out
AwaitsCaption(r) == r.pc = "fanout"

\* step 2: the hashtag agent and the image editor are started
FanOut ==
  /\ AwaitsCaption(req)
  /\ req.tasks = NoTasks
  /\ req' = [req EXCEPT
       !.tasks = [hashtags |-> IF req.plan.hashtags THEN "running" ELSE "none",
                  image |-> IF req.plan.imageEditor /\ Len(req.mediaFiles) > 0
                            THEN "running" ELSE "none"],
       !.hashtagArg = IF "caption" \in req.results.keys THEN req.results.caption ELSE "",
       !.pc = "join"]
  /\ UNCHANGED <<imagen, transcriber, calls, handler, appended, lastRead, redis, files, clock, nops, nreqs, nextFile, lastStore>>

\* the hashtag task settles
HashtagSettles(ai, reversed) ==
  /\ req.pc = "join"
  /\ req.tasks.hashtags = "running"
  /\ LET tags == GenerateHashtags(req.intent, ai, reversed)
     IN req' = [req EXCEPT
          !.results.keys = @ \cup {"hashtags", "hashtagsCategorized", "hashtagsFormatted"},
          !.results.hashtags = tags,
          !.results.hashtagsFormatted = Join(tags),
          !.targetCount = TargetTable[req.intent.rawTranscript],
          !.hashtagAi = IF ai.failed THEN "failed" ELSE "ok",
          !.tasks.hashtags = "done"]
  /\ UNCHANGED <<imagen, transcriber, calls, handler, appended, lastRead, redis, files, clock, nops, nreqs, nextFile, lastStore>>

\* processMediaFiles: one entry for every image file
ProcessMediaFiles(mediaFiles, intent, ai, sharpOk) ==
  LET idx == SelectSeq(Indices(Len(mediaFiles)),
                       LAMBDA i : StartsAt(mediaFiles[i].mimetype, 1, "image/"))
  IN [k \in 1..Len(idx) |->
        LET result == ProcessImage(mediaFiles[idx[k]].buffer, intent, ai[idx[k]], sharpOk[idx[k]])
        IN [ originalFileId |-> mediaFiles[idx[k]].fileId,
             buffer |-> result.buffer,
             ops |-> result.ops ]]

\* the image model calls made for the files: none for a text-only request or
\* for a buffer that cannot be read
ImageAiCalls(mediaFiles, intent, ai) ==
  [i \in 1..Len(mediaFiles) |->
     IF NeedsAITable[intent.rawTranscript] /\ mediaFiles[i].buffer # "null"
        /\ StartsAt(mediaFiles[i].mimetype, 1, "image/")
     THEN ai[i] ELSE "notCalled"]

\* the image task settles
ImageSettles(ai, sharpOk) ==
  /\ req.pc = "join"
  /\ req.tasks.image = "running"
  /\ req' = [req EXCEPT
       !.results.keys = @ \cup {"processedMedia"},
       !.results.processedMedia = ProcessMediaFiles(req.mediaFiles, req.intent, ai, sharpOk),
       !.imageAi = ImageAiCalls(req.mediaFiles, req.intent, ai),
       !.tasks.image = "done"]
  /\ UNCHANGED <<imagen, transcriber, calls, handler, appended, lastRead, redis, files, clock, nops, nreqs, nextFile, lastStore>>

\* orchestrate: the agents it lists as used
AgentsUsed(results) ==
  (IF "caption" \in results.keys /\ results.caption # "" THEN <<"caption">> ELSE <<>>)
  \o (IF "hashtags" \in results.keys THEN <<"hashtag">> ELSE <<>>)
  \o (IF "processedMedia" \in results.keys /\ Len(results.processedMedia) > 0
      THEN <<"imageEditor">> ELSE <<>>)

\* the join resumes as soon as one task has settled
AnySettled(tasks) ==
  \/ tasks = NoTasks
  \/ tasks.hashtags = "done"
  \/ tasks.image = "done"

\* await Promise.all(parallelTasks): neither task rejects (generateAIHashtags
\* and processMediaFiles catch their errors), so it resumes when every task
\* that was started has settled
AllSettled(tasks) == tasks.hashtags # "running" /\ tasks.image # "running"

\* Promise.all has settled: orchestrate returns the results with the metadata
OrchestrateReturns ==
  /\ req.pc = "join"
  /\ AllSettled(req.tasks)
  /\ req' = [req EXCEPT !.results.keys = @ \cup {"metadata"},
                        !.results.agentsUsed = AgentsUsed(req.results),
                        !.pc = "returned"]
  /\ UNCHANGED <<imagen, transcriber, calls, handler, appended, lastRead, redis, files, clock, nops, nreqs, nextFile, lastStore>>

\* the edit handler after orchestrate: save, delete, store, history, answer
EditFinish(upFail, refused) ==
  /\ req.pc = "returned"
  /\ req.kind = "edit"
  /\ LET s == req.sessionId
         old == ProcessedMediaOf(req.session)
         saves == IF req.phase = "normal"
                  THEN SaveEvents(req.results.processedMedia, upFail, nextFile)
                  ELSE <<>>
         newUrls == SavedUrls(saves)
         deletes == IF req.phase = "normal" /\ DeletesOld(old, newUrls)
                    THEN DeleteEvents(old, AfterEvents(files, saves), refused)
                    ELSE <<>>
         content == IF req.phase = "normal" THEN EditContent(req, newUrls, clock)
                    ELSE GeneratedContent(req, clock)
         stored == StoredContent(redis[s], content, clock)
     IN /\ files' = AfterEvents(files, saves \o deletes)
        /\ nextFile' = IF req.phase = "normal"
                       THEN nextFile + Len(req.results.processedMedia) ELSE nextFile
        /\ redis' = RedisSet(redis, s, WithHistory(JsonSession(stored), req, clock))
        /\ lastStore' = [called |-> TRUE, sessionId |-> s,
                         prev |-> redis[s].processedContent, content |-> content]
        /\ appended' = WithAppended(appended, s, req, clock)
        /\ req' = Respond([req EXCEPT !.log = @ \o saves \o deletes], 200)
  /\ clock' = clock + 1
  /\ UNCHANGED <<imagen, transcriber, calls, handler, lastRead, nops, nreqs>>

\* POST /:sessionId/transcribe: transcribe, parse the intent, add the
\* transcript to the session; an error of transcribe goes to next(error)
TranscribeVoice(s, audio, useWhisper, dgOk, whOk) ==
  /\ Free
  /\ audio # "none"
  /\ s \in DOMAIN redis
  /\ LET result == Transcribe(transcriber.deepgram, transcriber.openai, useWhisper, dgOk, whOk)
     IN /\ transcriber' = [transcriber EXCEPT !.called = TRUE, !.useWhisper = useWhisper,
                                              !.dgOk = dgOk, !.whOk = whOk,
                                              !.result = result]
        /\ IF result.threw
           THEN UNCHANGED <<redis, clock, nops>>
           ELSE /\ Tick
                /\ redis' = RedisSet(redis, s,
                     AddedTranscript(redis[s], audio, IntentTable[audio], clock))
  /\ req' = IdleReq
  /\ UNCHANGED <<imagen, calls, handler, appended, lastRead, files, nreqs, nextFile, lastStore>>

\* the media files processContent hands to orchestrate: every image has the
\* placeholder Buffer.from([])
PlaceholderMedia(session) ==
  [i \in 1..Len(session.uploadedMedia) |->
     [ fileId |-> session.uploadedMedia[i].fileId,
       url |-> session.uploadedMedia[i].url,
       mimetype |-> session.uploadedMedia[i].mimeType,
       buffer |-> IF StartsAt(session.uploadedMedia[i].mimeType, 1, "image/")
                  THEN "empty" ELSE "null" ]]

\* POST /:sessionId/process, up to the orchestrate call
ProcessBegin(s, useVoiceIntent, intent) ==
  /\ Free
  /\ nreqs < MaxRequests
  /\ nreqs' = nreqs + 1
  /\ Tick
  /\ LET r0 == [IdleReq EXCEPT !.kind = "process", !.sessionId = s]
     IN req' =
          IF s \notin DOMAIN redis THEN Respond(r0, 404)
          ELSE IF useVoiceIntent /\ Len(redis[s].voiceTranscripts) > 0
          \* the latest record has no `parsedIntent` of its own
          THEN [r0 EXCEPT !.session = redis[s], !.intent = UndefinedIntent,
                          !.mediaFiles = PlaceholderMedia(redis[s]), !.pc = "classify"]
          ELSE IF intent # "none"
          THEN [r0 EXCEPT !.session = redis[s], !.transcript = intent,
                          !.intent = IntentTable[intent],
                          !.mediaFiles = PlaceholderMedia(redis[s]), !.pc = "classify"]
          ELSE Respond([r0 EXCEPT !.session = redis[s]], 400)
  /\ UNCHANGED <<imagen, transcriber, calls, handler, appended, lastRead, redis, files, nextFile, lastStore>>

\* the uploadFile calls of processContent: one for every processed media,
\* until one throws (failAt; 0 when none does)
ProcessSaveEvents(media, failAt, n) ==
  [k \in 1..(IF failAt = 0 THEN Len(media) ELSE failAt) |->
     [op |-> "upload", url |-> ProcessedLocator(n + k - 1), ok |-> k # failAt]]

ValueOr(present, v) == IF present THEN v ELSE Undefined

\* the processedContent object processContent builds
ProcessContent(r, urls, now) ==
  [ intent |-> IntentValue(r.intent),
    caption |-> ValueOr("caption" \in r.results.keys, Str(r.results.caption)),
    captionVariations |-> ValueOr("captionVariations" \in r.results.keys, Arr(<<>>)),
    hashtags |-> ValueOr("hashtags" \in r.results.keys, Arr(r.results.hashtags)),
    hashtagsFormatted |-> ValueOr("hashtagsFormatted" \in r.results.keys,
                                  Str(r.results.hashtagsFormatted)),
    processedMedia |-> Arr(urls),
    metadata |-> [t |-> "object", v |-> r.results.agentsUsed],
    processedAt |-> Str(ToString(now)) ]

\* processContent after orchestrate: save, store, answer
ProcessFinish(failAt) ==
  /\ req.pc = "returned"
  /\ req.kind = "process"
  /\ LET s == req.sessionId
         media == IF "processedMedia" \in req.results.keys
                  THEN req.results.processedMedia ELSE <<>>
         saves == ProcessSaveEvents(media, failAt, nextFile)
         content == ProcessContent(req, SavedUrls(saves), clock)
     IN /\ failAt <= Len(media)
        /\ files' = AfterEvents(files, saves)
        /\ nextFile' = nextFile + Len(media)
        /\ IF failAt = 0
           THEN /\ redis' = RedisSet(redis, s, StoredContent(redis[s], content, clock))
                /\ lastStore' = [called |-> TRUE, sessionId |-> s,
                                 prev |-> redis[s].processedContent, content |-> content]
                /\ req' = Respond([req EXCEPT !.log = @ \o saves], 200)
           ELSE /\ req' = Respond([req EXCEPT !.log = @ \o saves], 500)
                /\ UNCHANGED <<redis, lastStore>>
  /\ clock' = clock + 1
  /\ UNCHANGED <<imagen, transcriber, calls, handler, appended, lastRead, nops, nreqs>>

\* what the intent call of the AI service gives: it throws, its answer holds
\* no JSON, or it holds a JSON object
AiIntent(c, h, i, p) ==
  [needsCaption |-> c, needsHashtags |-> h, needsImageEditing |-> i, imagePrompt |-> p]

AiLlmOutcomes ==
  {[kind |-> "throws", intent |-> AiIntent(FALSE, FALSE, FALSE, FALSE)],
   [kind |-> "unparsed", intent |-> AiIntent(FALSE, FALSE, FALSE, FALSE)]}
  \cup {[kind |-> "json", intent |-> AiIntent(c, h, i[1], i[2])] :
          c \in BOOLEAN, h \in BOOLEAN,
          i \in {<<FALSE, FALSE>>, <<TRUE, FALSE>>, <<TRUE, TRUE>>}}

\* parseIntentSimple
ParseIntentSimple(transcript) ==
  LET needsImageEditing ==
        Some({"edit image", "change image", "modify image", "update image",
              "brighter", "darker", "filter"}, transcript)
  IN AiIntent(Some({"caption", "description"}, transcript),
              Some({"hashtag", "#", "tag"}, transcript),
              needsImageEditing,
              needsImageEditing /\ transcript # "")

SimpleIntentTable == [t \in Instructions |-> ParseIntentSimple(t)]

\* parseIntentWithLLM, for a transcript that is a string
ParseIntentWithLLM(transcript, llm) ==
  IF llm.kind = "json" THEN llm.intent
  ELSE IF llm.kind = "unparsed" THEN AiIntent(TRUE, TRUE, FALSE, FALSE)
  ELSE SimpleIntentTable[transcript]

EditOutcomes == {"throws", "image", "noBuffer"}

\* processVoiceCommand: whether it throws, and the keys of its result
ProcessVoiceCommand(transcript, isString, imageData, llm, edit, textOk, capMatch, hashMatch) ==
  LET simpleThrows == llm.kind = "throws" /\ ~isString
      intent == IF simpleThrows THEN AiIntent(FALSE, FALSE, FALSE, FALSE)
                ELSE IF isString THEN ParseIntentWithLLM(transcript, llm)
                ELSE IF llm.kind = "json" THEN llm.intent
                ELSE AiIntent(TRUE, TRUE, FALSE, FALSE)
      edits == intent.needsImageEditing /\ intent.imagePrompt /\ imageData
      texts == intent.needsCaption \/ intent.needsHashtags \/ ~intent.needsImageEditing
      caption == /\ texts
                 /\ intent.needsCaption
                      \/ (~intent.needsCaption /\ ~intent.needsHashtags /\ ~intent.needsImageEditing)
                 /\ capMatch
      hashtags == /\ texts
                  /\ intent.needsHashtags \/ (~intent.needsCaption /\ ~intent.needsImageEditing)
                  /\ hashMatch
  IN [ throws |-> simpleThrows \/ (edits /\ edit = "throws") \/ (texts /\ ~textOk),
       imageEdited |-> edits,
       editedBuffer |-> edits /\ edit = "image",
       results |-> [NoResults EXCEPT
                      !.keys = (IF caption THEN {"caption"} ELSE {})
                               \cup (IF hashtags THEN {"hashtags", "hashtagsFormatted"} ELSE {})
                               \cup (IF edits THEN {"editedImage", "imageEdited"} ELSE {}),
                      !.caption = IF caption THEN "caption: " \o transcript ELSE "",
                      !.hashtags = IF hashtags THEN <<"#x", "#y">> ELSE <<>>,
                      !.hashtagsFormatted = IF hashtags THEN "#x #y" ELSE ""] ]

\* the processedContent object the AI-service edit handler builds
AiEditContent(r, transcriptValue, newUrls, now) ==
  WithGenerated(
    [ intent |-> IntentValue(r.intent),
      transcript |-> transcriptValue,
      processedMedia |-> Arr(KeepsProcessedMedia(newUrls, r.session)),
      originalMedia |-> Arr(UploadedUrls(r.session)),
      processedAt |-> Str(ToString(now)),
      autoGenerated |-> Bool(FALSE),
      voiceEdited |-> Bool(TRUE) ],
    r.results)

\* POST /:sessionId/edit, the handler built on the AI service, up to the
\* processVoiceCommand call
EditAiBegin(s, audio, transcribed) ==
  /\ handler = "aiService"
  /\ Free
  /\ nreqs < MaxRequests
  /\ nreqs' = nreqs + 1
  /\ LET r0 == [IdleReq EXCEPT !.kind = "editAi", !.sessionId = s]
     IN IF s \notin DOMAIN redis
        THEN /\ req' = Respond(r0, 404)
             /\ UNCHANGED <<redis, clock, nops>>
        ELSE IF audio = "none" /\ Len(redis[s].voiceTranscripts) = 0
        THEN /\ req' = Respond([r0 EXCEPT !.session = redis[s]], 400)
             /\ UNCHANGED <<redis, clock, nops>>
        ELSE IF audio # "none" /\ ~transcribed
        THEN /\ req' = Respond([r0 EXCEPT !.session = redis[s]], 500)
             /\ UNCHANGED <<redis, clock, nops>>
        ELSE IF audio = "none"
        \* `transcript` is the transcription object of the latest record and
        \* `intent` is undefined
        THEN LET session == redis[s]
                 latest == session.voiceTranscripts[Len(session.voiceTranscripts)]
             IN /\ Tick
                /\ req' = [r0 EXCEPT !.session = session, !.pc = "aiCall",
                                     !.transcript = latest.transcript.transcript,
                                     !.intent = UndefinedIntent,
                                     !.mediaFiles = LoadMedia(session, files)]
                /\ UNCHANGED redis
        ELSE LET session == redis[s]
                 intent == IntentTable[audio]
             IN /\ Tick
                /\ redis' = RedisSet(redis, s, AddedTranscript(session, audio, intent, clock))
                /\ req' = [r0 EXCEPT !.session = session, !.pc = "aiCall",
                                     !.transcript = audio, !.intent = intent,
                                     !.mediaFiles = LoadMedia(session, files)]
  /\ UNCHANGED <<imagen, transcriber, calls, handler, appended, lastRead, files, nextFile, lastStore>>

\* processVoiceCommand settles
EditAiCall(llm, edit, textOk, capMatch, hashMatch) ==
  /\ req.pc = "aiCall"
  /\ LET imageData == Len(req.mediaFiles) > 0 /\ req.mediaFiles[1].buffer # "null"
         out == ProcessVoiceCommand(req.transcript, req.intent.defined, imageData, llm, edit,
                                    textOk, capMatch, hashMatch)
     IN req' = IF out.throws THEN Respond(req, 500)
               ELSE [req EXCEPT !.results = out.results,
                                !.imageAi = IF out.imageEdited THEN <<edit>> ELSE <<>>,
                                !.pc = "returned"]
  /\ UNCHANGED <<imagen, transcriber, calls, handler, appended, lastRead, redis, files, clock, nops, nreqs, nextFile, lastStore>>

\* the same handler after processVoiceCommand: save, delete, store, answer
EditAiFinish(upOk, refused) ==
  /\ req.pc = "returned"
  /\ req.kind = "editAi"
  /\ LET s == req.sessionId
         saves == IF req.imageAi = <<"image">>
                  THEN <<[op |-> "upload", url |-> ProcessedLocator(nextFile), ok |-> upOk]>>
                  ELSE <<>>
         newUrls == SavedUrls(saves)
         old == ProcessedMediaOf(req.session)
         deletes == IF DeletesOld(old, newUrls)
                    THEN DeleteEvents(old, AfterEvents(files, saves), refused)
                    ELSE <<>>
         content == AiEditContent(req, IF req.intent.defined THEN Str(req.transcript)
                                       ELSE [t |-> "object", v |-> <<req.transcript>>],
                                  newUrls, clock)
     IN /\ files' = AfterEvents(files, saves \o deletes)
        /\ nextFile' = nextFile + Len(saves)
        /\ redis' = RedisSet(redis, s, StoredContent(redis[s], content, clock))
        /\ lastStore' = [called |-> TRUE, sessionId |-> s,
                         prev |-> redis[s].processedContent, content |-> content]
        /\ req' = Respond([req EXCEPT !.log = saves \o deletes], 200)
  /\ clock' = clock + 1
  /\ UNCHANGED <<imagen, transcriber, calls, handler, appended, lastRead, nops, nreqs>>

\* sessionService.addToConversationHistory(sessionId, agentType, userMessage,
\* aiResponse); on a session that does not exist it throws and writes nothing
AddToConversationHistory(s, agentType, userMessage, aiResponse) ==
  /\ Free
  /\ s \in DOMAIN redis
  /\ nops < MaxAppends
  /\ nops' = nops + 1
  /\ clock' = clock + 1
  /\ redis' = RedisSet(redis, s, AddedHistory(redis[s], agentType, userMessage, aiResponse, clock))
  /\ appended' = [appended EXCEPT ![<<s, agentType>>] = @ \o Exchange(userMessage, aiResponse, clock)]
  /\ UNCHANGED <<imagen, transcriber, calls, handler, lastRead, files, nreqs, nextFile, lastStore, req>>

\* getConversationHistoryForAgent: the turns as messages of the chat model
GetConversationHistoryForAgent(session, agentType) ==
  LET turns == session.conversationHistory[agentType]
  IN [i \in 1..Len(turns) |->
        [ type |-> IF turns[i].role = "user" THEN "human" ELSE "ai",
          content |-> turns[i].content ]]

\* a caller reads the history of a capability from the session it loaded
ReadHistory(s, agentType) ==
  /\ Free
  /\ s \in DOMAIN redis
  /\ lastRead' = GetConversationHistoryForAgent(redis[s], agentType)
  /\ UNCHANGED <<imagen, transcriber, calls, handler, appended, redis, files, clock, nops, nreqs, nextFile, lastStore, req>>

\* an instruction and an answer handed to addToConversationHistory
HistoryMessages == {<<"make it funnier", "a funnier caption">>}

\* the conversation memory, called directly on two sessions
NextHistory ==
  \/ \E s \in HistorySessions, c \in Capabilities, m \in HistoryMessages :
       AddToConversationHistory(s, c, m[1], m[2])
  \/ \E s \in HistorySessions, c \in Capabilities : ReadHistory(s, c)

InitHistory ==
  /\ handler = "coordinator"
  /\ redis = [s \in HistorySessions |-> Stored(NewSession(s, 0))]
  /\ files = {}
  /\ clock = 1
  /\ nops = 0
  /\ nreqs = 0
  /\ nextFile = 1
  /\ lastStore = NoStore
  /\ req = IdleReq
  /\ appended = NoTurns
  /\ lastRead = <<>>
  /\ calls = NoCalls
  /\ transcriber = NoTranscription
  /\ imagen = NoImagen

SpecHistory == InitHistory /\ [][NextHistory]_vars

\* instructions the agent selection is run on
RoutingInstructions ==
  { "",
    "write a caption",
    "Write A CAPTION",
    "description for my post",
    "change the caption of the photo",
    "caption and hashtags please",
    "edit the photo caption and hashtags",
    "add tags",
    "only 3 hashtags",
    "make it brighter",
    "change the photo filter" }

\* the values a field of the classifier's JSON object may hold; Undefined
\* stands for a field that is missing
JsonFlagValues ==
  { Bool(TRUE), Bool(FALSE), Str("true"), Str("yes"), Str("false"), Str("no"),
    Str("y"), Str("1"), Str(" True "), Str("maybe"), Num(1), Num(0), Num(2),
    Null, Undefined }

LlmResponses ==
  {LlmResponse(k, Undefined, Undefined, Undefined) : k \in LlmFailures}
  \cup {LlmResponse("json", c, h, i) :
          c \in JsonFlagValues, h \in JsonFlagValues, i \in JsonFlagValues}

\* the agent selection alone, on an instruction and an action flag
NextRouting == \E llm \in LlmResponses : DetermineAgents(llm)

InitRouting ==
  /\ handler = "coordinator"
  /\ redis = [s \in SessionIds |-> Stored(NewSession(s, 0))]
  /\ files = {}
  /\ clock = 1
  /\ nops = 0
  /\ nreqs = 1
  /\ nextFile = 1
  /\ lastStore = NoStore
  /\ req \in {[IdleReq EXCEPT !.kind = "process", !.pc = "classify", !.transcript = t,
                               !.intent = [ParseIntent(t) EXCEPT !.action =
                                             IF editImage THEN "edit_image" ELSE @]] :
                t \in RoutingInstructions, editImage \in BOOLEAN}
  /\ appended = NoTurns
  /\ lastRead = <<>>
  /\ calls = NoCalls
  /\ transcriber = NoTranscription
  /\ imagen = NoImagen

SpecRouting == InitRouting /\ [][NextRouting]_vars

\* the hashtag agent alone, started by the fan-out for an instruction
NextHashtags ==
  \/ FanOut
  \/ \E ai \in AiHashtagOutcomes, reversed \in BOOLEAN : HashtagSettles(ai, reversed)
  \/ OrchestrateReturns

InitHashtags ==
  /\ handler = "coordinator"
  /\ redis = [s \in SessionIds |-> Stored(NewSession(s, 0))]
  /\ files = {}
  /\ clock = 1
  /\ nops = 0
  /\ nreqs = 1
  /\ nextFile = 1
  /\ lastStore = NoStore
  /\ req \in {[IdleReq EXCEPT !.kind = "process", !.pc = "fanout", !.transcript = t,
                               !.intent = ParseIntent(t),
                               !.plan = Plan(FALSE, TRUE, FALSE),
                               !.results = InitialResults] :
                t \in CountInstructions}
  /\ appended = NoTurns
  /\ lastRead = <<>>
  /\ calls = NoCalls
  /\ transcriber = NoTranscription
  /\ imagen = NoImagen

SpecHashtags == InitHashtags /\ [][NextHashtags]_vars

\* the session service, called directly
Next ==
  \/ \E s \in SessionIds : ValidateSession(s)
  \/ \E s \in SessionIds, u \in UploadLocators : AddMediaToSession(s, u)
  \/ \E s \in SessionIds, R \in PartialResults : StoreProcessedContent(s, R)

Spec == Init /\ [][Next]_vars

\* the edit requests, of the handler built on the coordinator and of the
\* handler built on the AI service
NextRequests ==
  \/ \E s \in SessionIds : ValidateSession(s)
  \/ \E s \in SessionIds, u \in UploadLocators : AddMediaToSession(s, u)
  \/ \E s \in SessionIds : \E audio \in Instructions \cup {"none"},
        transcribed \in BOOLEAN, generated \in BOOLEAN, refused \in SUBSET OldProcessed(s) :
       EditBegin(s, audio, transcribed, generated, refused)
  \/ \E llm \in LlmOutcomes : DetermineAgents(llm)
  \/ \E response \in CaptionResponses : CaptionSettles(response)
  \/ FanOut
  \* the order the shuffle of the trending tags leaves is fixed here
  \/ \E ai \in AiHashtagOutcomes : HashtagSettles(ai, FALSE)
  \/ \E ai \in [1..Len(req.mediaFiles) -> ImageAiOutcomes],
        sharpOk \in [1..Len(req.mediaFiles) -> BOOLEAN] : ImageSettles(ai, sharpOk)
  \/ OrchestrateReturns
  \/ \E upFail \in SUBSET (1..Len(req.results.processedMedia)),
        refused \in SUBSET Range(ProcessedMediaOf(req.session)) :
       EditFinish(upFail, refused)
  \/ \E s \in SessionIds, audio \in Instructions \cup {"none"}, transcribed \in BOOLEAN :
       EditAiBegin(s, audio, transcribed)
  \/ \E llm \in AiLlmOutcomes, edit \in EditOutcomes, textOk \in BOOLEAN,
        capMatch \in BOOLEAN, hashMatch \in BOOLEAN :
       EditAiCall(llm, edit, textOk, capMatch, hashMatch)
  \/ \E upOk \in BOOLEAN, refused \in SUBSET Range(ProcessedMediaOf(req.session)) :
       EditAiFinish(upOk, refused)

InitRequests ==
  /\ handler \in Handlers
  /\ redis = [k \in {} |-> NewSession("s1", 0)]
  /\ files = {}
  /\ clock = 1
  /\ nops = 0
  /\ nreqs = 0
  /\ nextFile = 1
  /\ lastStore = NoStore
  /\ req = IdleReq
  /\ appended = NoTurns
  /\ lastRead = <<>>
  /\ calls = NoCalls
  /\ transcriber = NoTranscription
  /\ imagen = NoImagen

SpecRequests == InitRequests /\ [][NextRequests]_vars

\* the requests of the action controller
NextProcess ==
  \/ \E s \in SessionIds : ValidateSession(s)
  \/ \E s \in SessionIds, u \in UploadLocators : AddMediaToSession(s, u)
  \* Deepgram answers
  \/ \E s \in SessionIds, audio \in Instructions :
       TranscribeVoice(s, audio, FALSE, TRUE, TRUE)
  \/ \E s \in SessionIds, useVoiceIntent \in BOOLEAN, intent \in Instructions \cup {"none"} :
       ProcessBegin(s, useVoiceIntent, intent)
  \/ \E llm \in LlmOutcomes : DetermineAgents(llm)
  \/ \E response \in CaptionResponses : CaptionSettles(response)
  \/ FanOut
  \/ \E ai \in AiHashtagOutcomes, reversed \in BOOLEAN : HashtagSettles(ai, reversed)
  \/ \E ai \in [1..Len(req.mediaFiles) -> ImageAiOutcomes],
        sharpOk \in [1..Len(req.mediaFiles) -> BOOLEAN] : ImageSettles(ai, sharpOk)
  \/ OrchestrateReturns
  \/ \E failAt \in 0..MaxMedia : ProcessFinish(failAt)

SpecProcess == Init /\ [][NextProcess]_vars

\* the session service under concurrent requests, a store that can fail, and
\* expiry
NextSessions ==
  \/ \E c \in Clients, op \in CallOps \ {"store"}, s \in SessionIds :
       SessionCall(c, op, s, EmptyObj)
  \/ \E c \in Clients, s \in SessionIds, content \in StoreContents :
       SessionCall(c, "store", s, content)
  \/ \E c \in Clients, getOk \in BOOLEAN : SessionGet(c, getOk)
  \/ \E c \in Clients, setOk \in BOOLEAN : SessionSet(c, setOk)
  \/ \E c \in Clients, expireOk \in BOOLEAN : SessionExpire(c, expireOk)
  \/ TimePasses

SpecSessions == Init /\ [][NextSessions]_vars

\* the end of an edit request on a session that holds two processed images:
\* orchestrate has returned two processed images, the handler saves them,
\* deletes the old ones, stores the content and answers
NextDeletes ==
  \E upFail \in SUBSET (1..Len(req.results.processedMedia)),
     refused \in SUBSET Range(ProcessedMediaOf(req.session)) :
    EditFinish(upFail, refused)

\* the session the request of NextDeletes loaded: two uploads, and the
\* content an earlier edit stored with the processed images p1 and p2
EditedSession ==
  LET uploaded == AddedMedia(AddedMedia(NewSession("s1", 1),
                    [fileId |-> "u1", url |-> "u1", mimeType |-> "image/jpeg"], 2),
                    [fileId |-> "u2", url |-> "u2", mimeType |-> "image/jpeg"], 3)
      earlier == [IdleReq EXCEPT !.kind = "edit", !.transcript = "change the photo filter",
                                 !.intent = IntentTable["change the photo filter"],
                                 !.session = uploaded]
  IN Stored(StoredContent(uploaded, EditContent(earlier, <<"p1", "p2">>, 4), 4))

InitDeletes ==
  /\ handler = "coordinator"
  /\ redis = [s \in SessionIds |->
               Stored(AddedTranscript(EditedSession, "change the photo filter",
                                      IntentTable["change the photo filter"], 5))]
  /\ \E kept \in SUBSET {"p1", "p2"} : files = {"u1", "u2"} \cup kept
  /\ clock = 6
  /\ nops = 0
  /\ nreqs = 1
  /\ nextFile = 3
  /\ lastStore = NoStore
  /\ \E b1 \in {"data", "empty"}, b2 \in {"data", "empty"}, caption \in BOOLEAN :
       req = [IdleReq EXCEPT
                !.kind = "edit", !.pc = "returned",
                !.transcript = "change the photo filter",
                !.intent = IntentTable["change the photo filter"],
                !.session = EditedSession,
                !.mediaFiles = LoadMedia(EditedSession, files),
                !.plan = Plan(caption, FALSE, TRUE),
                !.captionCall = IF caption THEN "done" ELSE "none",
                !.tasks = [hashtags |-> "none", image |-> "done"],
                !.results = [InitialResults EXCEPT
                   !.keys = {"status", "processedMedia", "metadata"}
                              \cup (IF caption THEN {"caption", "captionVariations"} ELSE {}),
                   !.caption = IF caption THEN CaptionFor("change the photo filter") ELSE "",
                   !.processedMedia =
                      << [originalFileId |-> "processed_0", buffer |-> b1, ops |-> <<"ai">>],
                         [originalFileId |-> "processed_1", buffer |-> b2, ops |-> <<"ai">>] >>,
                   !.agentsUsed = (IF caption THEN <<"caption">> ELSE <<>>)
                                    \o <<"imageEditor">>]]
  /\ appended = NoTurns
  /\ lastRead = <<>>
  /\ calls = NoCalls
  /\ transcriber = NoTranscription
  /\ imagen = NoImagen

SpecDeletes == InitDeletes /\ [][NextDeletes]_vars

\* the image task alone, started by the fan-out for one media file
NextImages ==
  \/ \E ai \in [1..Len(req.mediaFiles) -> ImageAiOutcomes],
        sharpOk \in [1..Len(req.mediaFiles) -> BOOLEAN] : ImageSettles(ai, sharpOk)
  \/ OrchestrateReturns

InitImages ==
  /\ handler = "coordinator"
  /\ redis = [s \in SessionIds |-> Stored(NewSession(s, 0))]
  /\ files = {}
  /\ clock = 1
  /\ nops = 0
  /\ nreqs = 1
  /\ nextFile = 1
  /\ lastStore = NoStore
  /\ req \in {[IdleReq EXCEPT !.kind = "edit", !.pc = "join", !.transcript = t,
                               !.intent = ParseIntent(t),
                               !.plan = Plan(FALSE, FALSE, TRUE),
                               !.results = InitialResults,
                               !.tasks = [hashtags |-> "none", image |-> "running"],
                               !.mediaFiles = << [fileId |-> "u1", url |-> "u1",
                                                  mimetype |-> m,
                                                  buffer |-> b] >>] :
                t \in ImageInstructions, b \in {"null", "empty", "data"},
                m \in {"image/jpeg", "video/mp4"}}
  /\ appended = NoTurns
  /\ lastRead = <<>>
  /\ calls = NoCalls
  /\ transcriber = NoTranscription
  /\ imagen = NoImagen

SpecImages == InitImages /\ [][NextImages]_vars

\* the transcribe endpoint under every configuration of the providers
NextTranscribe ==
  \E s \in SessionIds, audio \in Instructions, useWhisper \in BOOLEAN,
     dgOk \in BOOLEAN, whOk \in BOOLEAN :
    TranscribeVoice(s, audio, useWhisper, dgOk, whOk)

InitTranscribe ==
  /\ handler = "coordinator"
  /\ redis = [s \in SessionIds |-> Stored(NewSession(s, 0))]
  /\ files = {}
  /\ clock = 1
  /\ nops = 0
  /\ nreqs = 0
  /\ nextFile = 1
  /\ lastStore = NoStore
  /\ req = IdleReq
  /\ appended = NoTurns
  /\ lastRead = <<>>
  /\ calls = NoCalls
  /\ \E deepgram \in BOOLEAN, openai \in BOOLEAN :
       transcriber = [NoTranscription EXCEPT !.deepgram = deepgram, !.openai = openai]
  /\ imagen = NoImagen

SpecTranscribe == InitTranscribe /\ [][NextTranscribe]_vars

\* one generateImage call of the loop settles: its result is returned, or its
\* error is caught and, unless this was the last round, the delay is started
GenerateImageSettles(ok, error) ==
  /\ imagen.pc = "call"
  /\ LET tried == Append(imagen.attempts, IF ok THEN "ok" ELSE error)
         caught == [imagen EXCEPT !.attempts = tried,
                                  !.lastError = [attempt |-> Len(tried), error |-> error]]
     IN imagen' =
          IF ok
          THEN [imagen EXCEPT !.attempts = tried, !.pc = "returned", !.result = Len(tried)]
          ELSE IF imagen.i < imagen.maxRetries
          THEN [caught EXCEPT !.pc = "wait"]
          ELSE LoopAt(caught, imagen.i + 1)
  /\ UNCHANGED <<redis, files, clock, nops, nreqs, nextFile, lastStore, req, handler,
                 appended, lastRead, calls, transcriber>>

\* the delay of 1000 * (i + 1) ms has run out: i++ and the loop goes round
RetryDelayElapses ==
  /\ imagen.pc = "wait"
  /\ imagen' = LoopAt([imagen EXCEPT !.waited = @ + 1000 * (imagen.i + 1)], imagen.i + 1)
  /\ UNCHANGED <<redis, files, clock, nops, nreqs, nextFile, lastStore, req, handler,
                 appended, lastRead, calls, transcriber>>

\* generateImageWithRetry, called with a maxRetries or with the default
NextImagen ==
  \/ \E ok \in BOOLEAN, error \in ImagenErrors : GenerateImageSettles(ok, error)
  \/ RetryDelayElapses

InitImagen ==
  /\ handler = "coordinator"
  /\ redis = [s \in SessionIds |-> Stored(NewSession(s, 0))]
  /\ files = {}
  /\ clock = 1
  /\ nops = 0
  /\ nreqs = 0
  /\ nextFile = 1
  /\ lastStore = NoStore
  /\ req = IdleReq
  /\ appended = NoTurns
  /\ lastRead = <<>>
  /\ calls = NoCalls
  /\ transcriber = NoTranscription
  /\ \E maxRetries \in (0..MaxRetriesTried) \cup {DefaultMaxRetries} :
       imagen = LoopAt([NoImagen EXCEPT !.maxRetries = maxRetries], 0)

\* every generateImage call settles (axios gives up after 60 s) and every
\* timer fires, and the event loop then runs the continuation
SpecImagen == InitImagen /\ [][NextImagen]_vars /\ WF_vars(NextImagen)


C2_EditKeepsOtherFields ==
  LET P == ContentFields(req.session.processedContent)
      M == ContentFields(redis[req.sessionId].processedContent)
      keys == req.results.keys
  IN (/\ req.pc = "done" /\ req.kind \in {"edit", "editAi"} /\ req.response = 200
      /\ {"caption", "hashtags", "processedMedia"} \subseteq DOMAIN P
      /\ Len(ProcessedMediaOf(req.session)) > 0
      /\ ("caption" \in keys) # ("hashtags" \in keys)
      /\ \A i \in 1..Len(req.log) : ~(req.log[i].op = "upload" /\ req.log[i].ok))
     => /\ "caption" \notin keys => Get(M, "caption") = P["caption"]
        /\ "hashtags" \notin keys => Get(M, "hashtags") = P["hashtags"]
        /\ Get(M, "processedMedia") = P["processedMedia"]

\* C3: after a process request every one of caption, captionVariations,
\* hashtags, hashtagsFormatted and processedMedia that the previous Processed
\* Content held and the run did not regenerate has its previous value.
C3_ProcessKeepsFields ==
  LET P == ContentFields(req.session.processedContent)
      M == ContentFields(redis[req.sessionId].processedContent)
  IN (req.pc = "done" /\ req.kind = "process" /\ req.response = 200)
     => \A k \in {"caption", "captionVariations", "hashtags", "hashtagsFormatted",
                  "processedMedia"} :
          (k \in DOMAIN P /\ k \notin req.results.keys) => Get(M, k) = P[k]

\* C4: an edit whose image transform ran and returned no usable buffer issues
\* no deletion, and the processedMedia list stored after it is the list stored
\* before it.
C4_NoUsableOutputKeepsMedia ==
  LET P == ContentFields(req.session.processedContent)
      M == ContentFields(redis[req.sessionId].processedContent)
      ranWithoutOutput ==
        \/ /\ req.kind = "edit" /\ req.genUrl = ""
           /\ "processedMedia" \in req.results.keys
           /\ \A i \in 1..Len(req.results.processedMedia) :
                req.results.processedMedia[i].buffer # "data"
        \/ /\ req.kind = "editAi"
           /\ "imageEdited" \in req.results.keys
           /\ req.imageAi # <<"image">>
  IN (/\ req.pc = "done" /\ req.response = 200
      /\ ranWithoutOutput
      /\ "processedMedia" \in DOMAIN P)
     => /\ \A i \in 1..Len(req.log) : req.log[i].op # "delete"
        /\ Get(M, "processedMedia") = P["processedMedia"]

\* C5: in every edit request a deleteFile call for an old processed image
\* comes only after an uploadFile call of the same request has succeeded.
C5_DeleteOnlyAfterUpload ==
  \A i \in 1..Len(req.log) :
    req.log[i].op = "delete"
      => \E j \in 1..(i - 1) : req.log[j].op = "upload" /\ req.log[j].ok

C5_Witness ==
  /\ req.pc = "done" /\ req.response = 200
  /\ \E i \in 1..Len(req.log) : req.log[i].op = "delete" /\ req.log[i].ok

\* C6: the result of orchestrate holds caption and captionVariations only if
\* the caption agent ran, hashtags and hashtagsFormatted only if the hashtag
\* agent ran, processedMedia only if the image transform ran; a hashtags-only
\* edit on a session without Processed Content stores the generated hashtags
\* and no caption.
C6_KeysOnlyOfRanCapabilities ==
  LET keys == req.results.keys
      M == ContentFields(redis[req.sessionId].processedContent)
  IN /\ req.kind = "edit" =>
          /\ {"caption", "captionVariations"} \cap keys # {}
               => req.plan.caption /\ req.captionCall = "done"
          /\ {"hashtags", "hashtagsFormatted"} \cap keys # {}
               => req.plan.hashtags /\ req.tasks.hashtags = "done"
          /\ "processedMedia" \in keys
               => req.plan.imageEditor /\ req.tasks.image = "done"
     /\ (/\ req.pc = "done" /\ req.kind = "edit" /\ req.response = 200
         /\ req.plan = Plan(FALSE, TRUE, FALSE)
         /\ req.session.processedContent.null)
        => /\ Get(M, "hashtags") = Arr(req.results.hashtags)
           /\ "caption" \notin DOMAIN M
           /\ "captionVariations" \notin DOMAIN M

C6_Witness ==
  /\ req.pc = "done" /\ req.kind = "edit" /\ req.response = 200
  /\ req.plan = Plan(FALSE, TRUE, FALSE)
  /\ req.session.processedContent.null
  /\ Len(req.results.hashtags) > 0

\* C7: when exactly one of the hashtag generation and the image transform
\* fails, orchestrate returns with the keys of the one that succeeded and
\* without the keys of the one that failed.
C7_FailedCapabilityKeysAbsent ==
  LET keys == req.results.keys
      hashtagFailed == req.hashtagAi = "failed"
      imageFailed == \E i \in 1..Len(req.imageAi) : req.imageAi[i] = "throws"
  IN (/\ req.pc = "returned" /\ req.kind = "edit"
      /\ req.tasks.hashtags = "done" /\ req.tasks.image = "done")
     => /\ (hashtagFailed /\ ~imageFailed)
             => /\ "processedMedia" \in keys
                /\ {"hashtags", "hashtagsFormatted"} \cap keys = {}
        /\ (imageFailed /\ ~hashtagFailed)
             => /\ {"hashtags", "hashtagsFormatted"} \subseteq keys
                /\ "processedMedia" \notin keys

\* C8: when the image transform throws and the hashtag generation succeeds,
\* the result of orchestrate holds hashtags and no processedMedia key, and the
\* processedMedia stored before the edit is the one stored after it.
C8_ImageFailureOmitsProcessedMedia ==
  LET keys == req.results.keys
      P == ContentFields(req.session.processedContent)
      M == ContentFields(redis[req.sessionId].processedContent)
      case == /\ req.kind = "edit"
              /\ \E i \in 1..Len(req.imageAi) : req.imageAi[i] = "throws"
              /\ req.hashtagAi = "ok"
  IN /\ (req.pc = "returned" /\ case)
        => "hashtags" \in keys /\ "processedMedia" \notin keys
     /\ (req.pc = "done" /\ req.response = 200 /\ case /\ "processedMedia" \in DOMAIN P)
        => Get(M, "processedMedia") = P["processedMedia"]

\* C9: a caption call that fails does not abort the orchestration: the
\* request goes on to the fan-out and is answered normally, without caption
\* keys in the result.
C9_CaptionFailureNotFatal ==
  req.captionCall = "threw"
    => /\ req.pc \in {"fanout", "join", "returned"}
          \/ (req.pc = "done" /\ req.response = 200)
       /\ {"caption", "captionVariations"} \cap req.results.keys = {}

\* C10: when the plan holds the caption, the hashtag agent is started only
\* after the caption call has completed and is given the caption it produced,
\* and the image transform is started only after the caption call has
\* completed.
C10_FanOutAfterCaption ==
  (req.kind = "edit" /\ req.plan.caption)
    => /\ req.tasks.hashtags # "none"
            => /\ req.captionCall = "done"
               /\ req.hashtagArg = req.results.caption
       /\ req.tasks.image # "none" => req.captionCall = "done"

C10_Witness ==
  /\ req.plan.caption /\ req.plan.hashtags
  /\ req.tasks.hashtags = "running"
  /\ req.tasks.image = "running"

\* C11: orchestrate settles only after the hashtag task and the image task
\* it started have both settled: once the call has returned to its caller
\* (or the caller has answered), no fanned-out task is still running, and the
\* step that leaves the join is never taken with a task running.
C11_SettlesAfterBothTasks ==
  /\ req.pc \in {"returned", "done"}
       => req.tasks.hashtags # "running" /\ req.tasks.image # "running"
  /\ req.pc = "returned"
       => /\ req.plan.hashtags => req.tasks.hashtags = "done"
          /\ (req.plan.imageEditor /\ Len(req.mediaFiles) > 0) => req.tasks.image = "done"

C11_Witness ==
  /\ req.pc = "returned"
  /\ req.tasks.hashtags = "done"
  /\ req.tasks.image = "done"

\* C12: a call of addToConversationHistory appends the user turn and then
\* the assistant turn, and the stored history of a capability is always the
\* most recent min(10, 2n) of the turns appended to it, in insertion order:
\* never more than 10 turns, the oldest evicted first.
C12_HistoryIsLastTen ==
  \A s \in HistorySessions, c \in Capabilities :
    LET all == appended[<<s, c>>]
        stored == redis[s].conversationHistory[c]
    IN /\ Len(stored) = IF Len(all) < 10 THEN Len(all) ELSE 10
       /\ Len(stored) <= 10
       /\ stored = SubSeq(all, Len(all) - Len(stored) + 1, Len(all))
       /\ \A i \in 1..Len(stored) :
            stored[i].role = IF i % 2 = 1 THEN "user" ELSE "assistant"

C12_Witness ==
  \E s \in HistorySessions, c \in Capabilities :
    /\ Len(appended[<<s, c>>]) = 12
    /\ Len(redis[s].conversationHistory[c]) = 10
    /\ redis[s].conversationHistory[c][1].timestamp = 2

\* C13: the history of a capability of a session changes only in a step that
\* appends to that capability of that session: an append to another
\* capability or to another session leaves it as it was, and so does a read
\* by getConversationHistoryForAgent.
C13_HistoryFrame ==
  [][\A s \in HistorySessions, c \in Capabilities :
       appended'[<<s, c>>] = appended[<<s, c>>]
         => redis'[s].conversationHistory[c] = redis[s].conversationHistory[c]]_vars

C13_Witness ==
  /\ Len(redis["s1"].conversationHistory["caption"]) = 2
  /\ Len(redis["s1"].conversationHistory["hashtags"]) = 0
  /\ Len(redis["s2"].conversationHistory["hashtags"]) = 4
  /\ Len(redis["s2"].conversationHistory["caption"]) = 0
  /\ Len(lastRead) = 4

\* C14: when an edit request has been answered, the caption history of the
\* session is the one the request found plus one exchange (the instruction,
\* then the new caption) if the request generated a caption and is unchanged
\* otherwise, and likewise for the hashtags history.
C14_HistoryGrowsPerCapability ==
  (req.pc = "done" /\ req.response = 200 /\ req.kind \in {"edit", "editAi"})
    => \A c \in Capabilities :
         LET before == req.session.conversationHistory[c]
             after == redis[req.sessionId].conversationHistory[c]
             n == Len(before)
         IN IF c \in req.results.keys
            THEN /\ Len(after) = n + 2
                 /\ SubSeq(after, 1, n) = before
                 /\ after[n + 1].role = "user"
                 /\ after[n + 1].content = req.transcript
                 /\ after[n + 2].role = "assistant"
                 /\ c = "caption" => after[n + 2].content = req.results.caption
            ELSE after = before

\* C15: when the classifier call throws, returns empty content or returns
\* content that is not a JSON object, determineRequiredAgents does not fail:
\* the plan it returns is the plan of the keyword heuristics for the intent.
C15_ClassifierFailureFallsBack ==
  (req.pc \in {"caption", "fanout"} /\ req.llm.kind \in LlmFailures)
    => req.plan = DetermineRequiredAgentsWithHeuristics(req.intent)

C15_Witness ==
  /\ req.pc = "caption"
  /\ req.llm.kind = "badJson"
  /\ req.transcript = "write a caption"
  /\ req.plan = Plan(TRUE, FALSE, FALSE)

\* C16: on the heuristic path (the classifier failed), an instruction that
\* mentions a caption term and no hashtag term gets the plan with the caption
\* alone: caption true, hashtags false, image editor false (stated here for
\* the intents whose action is not edit_image).
C16_CaptionTermsGiveCaptionOnly ==
  LET text == ToLowerCase(req.transcript)
  IN (/\ req.pc \in {"caption", "fanout"}
      /\ req.llm.kind \in LlmFailures
      /\ req.intent.action # "edit_image"
      /\ Some({"caption", "description", "write caption", "create caption"}, text)
      /\ ~Some({"hashtag", "hash tag", "tag", "tags", "#"}, text))
     => req.plan = Plan(TRUE, FALSE, FALSE)

\* C17: on the heuristic path, an instruction that matches the caption
\* keywords and the hashtag keywords gets a plan with the caption and the
\* hashtags both true, whatever else it mentions.
C17_BothKeywordSetsGiveBoth ==
  LET text == ToLowerCase(req.transcript)
  IN (/\ req.pc \in {"caption", "fanout"}
      /\ req.llm.kind \in LlmFailures
      /\ Some({"caption", "description", "write caption", "create caption"}, text)
      /\ Some({"hashtag", "tags", "#", "hash tag"}, text))
     => req.plan.caption /\ req.plan.hashtags

\* C18: the plan of the keyword heuristics is a function of the instruction
\* text and the action flag alone: whatever requests were served before and
\* whatever the session holds, every request routed by the heuristics with a
\* given instruction (and the action parsed from it) has one and the same
\* plan, the one listed here for that instruction.
C18_HeuristicsAreDeterministic ==
  LET onePlan == [t \in Instructions |->
                    CASE t = "make the caption funnier" -> Plan(TRUE, FALSE, FALSE)
                      [] t = "only 3 hashtags" -> Plan(FALSE, TRUE, FALSE)
                      [] t = "change the photo filter" -> Plan(FALSE, FALSE, TRUE)
                      [] OTHER -> Plan(TRUE, TRUE, FALSE)]
  IN (req.pc \in {"caption", "fanout", "join", "returned"} /\ req.llm.kind \in LlmFailures)
       => req.plan = onePlan[req.transcript]

C18_Witness ==
  /\ nreqs = 2
  /\ req.pc = "fanout"
  /\ req.llm.kind = "throws"
  /\ req.transcript = "only 3 hashtags"
  /\ req.plan = Plan(FALSE, TRUE, FALSE)
  /\ ~redis[req.sessionId].processedContent.null
  /\ Len(redis[req.sessionId].voiceTranscripts) > 0

\* C19 (as stated): a flag of the parsed classifier output is true exactly
\* for the boolean true, the strings "true" and "yes" and the number 1, and
\* false for every other value, a missing field included.
C19_FlagsParsedAsStated ==
  LET trueValues == {Bool(TRUE), Str("true"), Str("yes"), Num(1)}
  IN (req.pc \in {"caption", "fanout"} /\ req.llm.kind = "json")
       => /\ req.plan.caption = (req.llm.caption \in trueValues)
          /\ req.plan.hashtags = (req.llm.hashtags \in trueValues)
          /\ req.plan.imageEditor = (req.llm.imageEditor \in trueValues)

\* C19 (amended): a flag of the parsed classifier output is true exactly for
\* the boolean true, the number 1 and a string that, trimmed and in lower
\* case, is "true", "yes", "y" or "1"; it is false for every other value:
\* the boolean false, "false", "no", 0, other strings and numbers, null and
\* a missing field.
C19_FlagsParsedPermissively ==
  LET trueValues == {Bool(TRUE), Num(1), Str("true"), Str("yes"), Str("y"), Str("1"),
                     Str(" True ")}
  IN (req.pc \in {"caption", "fanout"} /\ req.llm.kind = "json")
       => /\ req.plan.caption = (req.llm.caption \in trueValues)
          /\ req.plan.hashtags = (req.llm.hashtags \in trueValues)
          /\ req.plan.imageEditor = (req.llm.imageEditor \in trueValues)

C19_Witness ==
  /\ req.pc = "caption"
  /\ req.llm.kind = "json"
  /\ req.llm.caption = Str("y")
  /\ req.llm.hashtags = Str("no")
  /\ req.llm.imageEditor = Undefined
  /\ req.plan = Plan(TRUE, FALSE, FALSE)

\* C20: the target count of the hashtag agent is an integer from 1 to 30: a
\* number from 1 to 30 asked for with "N hashtags", "only N", "just N" (or a
\* word from one to ten) is the target, an instruction without a number has
\* the target 10, and a number above 30 is never the target.
C20_TargetCountInRange ==
  LET asked == [t \in CountInstructions |->
                  CASE t = "generate 3 hashtags" -> 3
                    [] t = "only five hashtags" -> 5
                    [] t = "30 hashtags please" -> 30
                    [] t = "just 7" -> 7
                    [] t = "ONLY 2" -> 2
                    [] t = "exactly 12" -> 12
                    [] t = "4 tags" -> 4
                    [] t = "only 40 or just 6" -> 6
                    [] t = "give me ten hashtags" -> 10
                    [] t = "just one" -> 1
                    [] OTHER -> 10]
  IN req.tasks.hashtags = "done"
       => /\ req.targetCount \in 1..30
          /\ req.targetCount = asked[req.transcript]
          /\ Len(req.results.hashtags) <= req.targetCount

C20_Witness ==
  /\ req.tasks.hashtags = "done"
  /\ req.transcript = "50 hashtags"
  /\ req.targetCount = 10
  /\ req.pc = "returned"

(* ------------------------- validateSession ----------------------------- *)
\* C21: validateSession creates a fresh session only when no session with the
\* identifier is stored; when one is stored it goes on to extend it, so the
\* stored session keeps its contents.  (Every step in which a validateSession
\* call gets its answer from getSession: with a session stored under the
\* identifier the call moves to extendSession, and only with none stored does
\* it move to createSessionWithId.)
C21_CreatesOnlyWhenAbsent ==
  [][\A c \in Clients :
       (calls[c].op = "validate" /\ calls[c].pc = "get" /\ calls'[c].pc # "get")
         => IF calls[c].sessionId \in DOMAIN redis
            THEN calls'[c].pc = "expire"
            ELSE calls'[c].pc = "set"]_vars

(* ----------------------- status and timestamps ------------------------- *)
\* C22: in every reachable state a stored session whose Processed Content is
\* non-null has status 'processed', and every storeProcessedContent call whose
\* write lands leaves the session with updatedAt set to the time of that call,
\* later than the updatedAt the call read.
C22_ProcessedStatusAndUpdatedAt ==
  /\ [](\A s \in DOMAIN redis :
          ~redis[s].processedContent.null => redis[s].status = "processed")
  /\ [][\A c \in Clients :
          (calls[c].op = "store" /\ calls[c].pc = "set" /\ calls'[c].wrote)
            => /\ redis'[calls[c].sessionId].updatedAt = calls[c].now
               /\ calls[c].now > calls[c].snapshot.updatedAt]_vars

\* a storeProcessedContent call has written: the stored session holds
\* Processed Content, is 'processed' and carries the time of the call
C22_Witness ==
  \E c \in Clients :
    /\ calls[c].op = "store" /\ calls[c].pc = "done" /\ calls[c].wrote
    /\ calls[c].sessionId \in DOMAIN redis
    /\ calls[c].snapshot.status = "active"
    /\ ~redis[calls[c].sessionId].processedContent.null
    /\ redis[calls[c].sessionId].status = "processed"
    /\ redis[calls[c].sessionId].updatedAt = calls[c].now

(* ------------------------------ expiry --------------------------------- *)
\* C23: every operation that touches a session and whose store command lands
\* (extendSession from validateSession on an existing session, and the write of
\* createSessionWithId, addMediaToSession, addTranscriptToSession,
\* storeProcessedContent and addToConversationHistory) leaves the key with the
\* full expiry window; apart from these resets the time to live only goes down
\* by one as one step of time passes, and a session is removed only by the
\* passing of time, when its last step has run out: a session expires only
\* after a full window without a touch.
C23_TouchResetsTtl ==
  [][\A s \in SessionIds :
       /\ \A c \in Clients :
            (calls[c].sessionId = s /\ calls[c].pc \in {"set", "expire"}
               /\ calls'[c].pc = "done" /\ calls'[c].wrote)
              => (s \in DOMAIN redis' /\ redis'[s].ttl = SessionExpiry)
       /\ (s \in DOMAIN redis /\ s \in DOMAIN redis' /\ redis'[s].ttl # redis[s].ttl)
            => \/ redis'[s].ttl = SessionExpiry
               \/ calls' = calls /\ redis'[s].ttl = redis[s].ttl - 1
       /\ (s \in DOMAIN redis /\ s \notin DOMAIN redis')
            => (calls' = calls /\ redis[s].ttl = 1)]_vars

\* a session one step from expiry was touched by an upload and by a
\* validateSession, and has its full window again
C23_Witness ==
  /\ calls["a"].op = "addMedia" /\ calls["a"].pc = "done" /\ calls["a"].wrote
  /\ calls["a"].snapshot.ttl = 1
  /\ calls["b"].op = "validate" /\ calls["b"].pc = "done" /\ calls["b"].wrote
  /\ calls["b"].found /\ calls["b"].snapshot.ttl = 1
  /\ "s1" \in DOMAIN redis /\ redis["s1"].ttl = SessionExpiry

(* --------------------------- merge idempotence ------------------------- *)
\* C24: storeProcessedContent called with an empty partial result leaves the
\* session's Processed Content as it was before the call, whatever it was,
\* also when the session had none (null).
C24_EmptyMergeChangesNothing ==
  (lastStore.called /\ lastStore.content = EmptyObj)
    => redis[lastStore.sessionId].processedContent = lastStore.prev

(* ------------------------- concurrent stores --------------------------- *)
\* C25: storeProcessedContent takes no lock.  Whenever the store write of a
\* storeProcessedContent call lands, the stored Processed Content becomes that
\* call's partial result merged over the Processed Content of the snapshot
\* that call read, whatever other requests have written in between; so what
\* is stored in the end is what the last writer wrote (last writer wins).
C25_LastWriterWins ==
  [][\A c \in Clients :
       (calls[c].op = "store" /\ calls[c].pc = "set" /\ calls'[c].wrote)
         => redis'[calls[c].sessionId].processedContent =
              Content(JsonObject(Spread(ContentFields(calls[c].snapshot.processedContent),
                                        calls[c].content)))]_vars

\* two requests read the session before either wrote, one stored a caption
\* and the other hashtags; the hashtags were written last and the caption of
\* the first writer is gone
C25_Witness ==
  /\ \A c \in Clients :
       /\ calls[c].op = "store" /\ calls[c].pc = "done" /\ calls[c].wrote
       /\ calls[c].snapshot.processedContent.null
  /\ DOMAIN calls["a"].content = {"caption"}
  /\ DOMAIN calls["b"].content = {"hashtags"}
  /\ "s1" \in DOMAIN redis
  /\ redis["s1"].processedContent = Content(calls["b"].content)

(* ------------------- writes follow the orchestration ------------------- *)
\* C26: within one edit request of the coordinator handler, no step taken
\* between the start of orchestrate and its return writes the session's
\* Processed Content or its conversation histories: while the request is
\* inside orchestrate both stay as they are, and a request in flight changes
\* either of them only in the step it takes after orchestrate has returned.
C26_WritesAfterOrchestrate ==
  [][(req.kind = "edit" /\ req.pc \notin {"idle", "done"}
        /\ req.sessionId \in DOMAIN redis)
       => LET s == req.sessionId
              same == /\ s \in DOMAIN redis'
                      /\ redis'[s].processedContent = redis[s].processedContent
                      /\ redis'[s].conversationHistory = redis[s].conversationHistory
                      /\ appended' = appended
                      /\ lastStore' = lastStore
          IN /\ req.pc \in {"classify", "caption", "fanout", "join"} => same
             /\ ~same => req.pc = "returned"]_vars

\* an edit request has answered after its orchestration produced a caption:
\* the caption is in the Processed Content and the turn is in the history
C26_Witness ==
  /\ req.kind = "edit" /\ req.pc = "done" /\ req.response = 200
  /\ "caption" \in req.results.keys
  /\ lastStore.called
  /\ Get(ContentFields(redis[req.sessionId].processedContent), "caption")
       = Str(req.results.caption)
  /\ Len(redis[req.sessionId].conversationHistory["caption"]) = 2
  /\ Len(req.session.conversationHistory["caption"]) = 0

(* ---------------------------- transcription ---------------------------- *)
\* C27: transcribe tries Deepgram first when it is configured and Whisper is
\* not forced; if Deepgram fails and Whisper is configured, the Whisper result
\* is returned; an error is raised only when no provider is left: none is
\* configured, or the last provider tried has failed.
C27_ErrorOnlyWhenNoProviderLeft ==
  transcriber.called =>
    LET t == transcriber.result
        n == Len(t.tried)
    IN /\ (transcriber.deepgram /\ ~transcriber.useWhisper)
            => (n > 0 /\ t.tried[1] = "deepgram")
       /\ (transcriber.deepgram /\ ~transcriber.useWhisper /\ ~transcriber.dgOk
             /\ transcriber.openai /\ transcriber.whOk)
            => (t.provider = "whisper" /\ ~t.threw)
       /\ t.threw
            => \/ ~transcriber.deepgram /\ ~transcriber.openai
               \/ n > 0 /\ t.tried[n] = "deepgram" /\ ~transcriber.dgOk
               \/ n > 0 /\ t.tried[n] = "whisper" /\ ~transcriber.whOk

(* ------------------------ image-edit fallback -------------------------- *)
\* C28: when the AI image-edit call fails or returns no image, processImage
\* does not propagate the error: the file still gets its entry in the result,
\* and what was run on its buffer is the basic processing alone, the resize
\* for the platform when the intent has one, then the enhancement (each of
\* them either applied or rejected by sharp), and no AI edit.
C28_AiFailureFallsBackToBasic ==
  \A i \in 1..Len(req.imageAi) :
    (req.imageAi[i] = "throws" /\ "processedMedia" \in req.results.keys)
      => /\ Len(req.results.processedMedia) = Len(req.mediaFiles)
         /\ LET entry == req.results.processedMedia[i]
                resize == IF req.intent.platform # "null"
                          THEN {<<"resize">>, <<"resize error">>} ELSE {<<>>}
                enhance == {<<"enhance">>, <<"enhance error">>}
            IN /\ entry.buffer = req.mediaFiles[i].buffer
               /\ entry.ops \in {r \o e : r \in resize, e \in enhance}

\* the AI edit of a readable image failed for an intent with a platform, and
\* the entry holds the image resized and enhanced
C28_Witness ==
  /\ req.pc = "returned"
  /\ Len(req.imageAi) = 1 /\ req.imageAi[1] = "throws"
  /\ req.intent.platform # "null"
  /\ Len(req.results.processedMedia) = 1
  /\ req.results.processedMedia[1].buffer = "data"
  /\ req.results.processedMedia[1].ops = <<"resize", "enhance">>

(* ----------------------- text-only instructions ------------------------ *)
\* C29: when the instruction of an edit request is about text only (it
\* mentions caption or hashtag and has no visual-edit vocabulary) and the
\* request has media, the image transform is skipped: the result of
\* orchestrate holds no processed media, no processed file is saved, and the
\* session's processed media stay as they were before the request.
C29_TextOnlySkipsImageTransform ==
  LET P == ContentFields(req.session.processedContent)
      M == ContentFields(redis[req.sessionId].processedContent)
      case == /\ req.kind = "edit" /\ req.phase = "normal"
              /\ req.pc = "returned" \/ (req.pc = "done" /\ req.response = 200)
              /\ ~NeedsAITable[req.intent.rawTranscript]
              /\ Len(req.mediaFiles) > 0
  IN /\ (case /\ req.pc = "returned")
        => ("processedMedia" \notin req.results.keys \/ req.results.processedMedia = <<>>)
     /\ (case /\ req.pc = "done" /\ req.response = 200)
        => /\ \A i \in 1..Len(req.log) : req.log[i].op # "upload"
           /\ Get(M, "processedMedia") \in {Get(P, "processedMedia"), Arr(<<>>)}

(* ----------------------- best-effort deletion -------------------------- *)
\* C30: a deleteFile call that fails on an old processed image is not fatal
\* to the edit request (one that generated no new image and whose orchestrate
\* call returned): the call answers false, every old processed image is
\* still attempted (one deleteFile call for each, in order), the new Processed
\* Content is stored with the saved images, and the request is answered with
\* success.
C30_DeleteFailureNotFatal ==
  LET old == ProcessedMediaOf(req.session)
      deletes == SelectSeq(req.log, LAMBDA e : e.op = "delete")
      M == ContentFields(redis[req.sessionId].processedContent)
  IN (/\ req.kind = "edit" /\ req.pc = "done" /\ req.genUrl = IdleReq.genUrl
      /\ "metadata" \in req.results.keys
      /\ \E i \in 1..Len(deletes) : ~deletes[i].ok)
       => /\ req.response = 200
          /\ Len(deletes) = Len(old)
          /\ \A i \in 1..Len(old) : deletes[i].url = old[i]
          /\ \A i \in 1..Len(old) : deletes[i].ok => old[i] \notin files
          /\ lastStore.called
          /\ Get(M, "processedMedia") = Arr(SavedUrls(req.log))

\* the first of two old processed images could not be deleted; the second
\* was deleted, the new images are stored and the request succeeded
C30_Witness ==
  LET deletes == SelectSeq(req.log, LAMBDA e : e.op = "delete")
  IN /\ req.kind = "edit" /\ req.pc = "done" /\ req.response = 200
     /\ Len(deletes) = 2
     /\ ~deletes[1].ok /\ deletes[1].url \in files
     /\ deletes[2].ok /\ deletes[2].url \notin files
     /\ Get(ContentFields(redis[req.sessionId].processedContent), "processedMedia")
          = Arr(<<"p3", "p4">>)

(* ------------------------ reading the transcript back ------------------ *)
\* C31: a process request that asks for the voice intent, on a session with
\* at least one stored transcript, hands the orchestrator the parsed intent of
\* the most recent record saved by addTranscriptToSession.
C31_UsesLatestTranscript ==
  ( /\ req.kind = "process"
    /\ req.pc = "classify"
    /\ req.transcript = ""
    /\ Len(req.session.voiceTranscripts) > 0 )
  => LET latest == req.session.voiceTranscripts[Len(req.session.voiceTranscripts)]
     IN req.intent = latest.transcript.parsedIntent

(* ------------------------- the agents listed as used ------------------- *)
\* C32: the agentsUsed list orchestrate returns names exactly the capabilities
\* that executed in the call: 'caption' iff the caption agent ran, 'hashtag'
\* iff the hashtag agent ran, 'imageEditor' iff the image editor ran.
C32_AgentsUsedAreThoseThatRan ==
  "metadata" \in req.results.keys =>
    LET used == Range(req.results.agentsUsed)
    IN /\ ("caption" \in used) <=> (req.captionCall = "done")
       /\ ("hashtag" \in used) <=> (req.tasks.hashtags = "done")
       /\ ("imageEditor" \in used) <=> (req.tasks.image = "done")

(* ---------------------------- files in storage ------------------------- *)
\* C33: once the edit requests made so far have completed, every processed
\* file still in storage is one the session's processedMedia refers to: the
\* others have been deleted.
C33_NoProcessedFileLeftBehind ==
  (Free /\ "s1" \in DOMAIN redis) =>
    \A f \in files \ UploadLocators : f \in Range(ProcessedMediaOf(redis["s1"]))

\* C34: no file the session lists in uploadedMedia is ever passed to
\* deleteFile.
C34_UploadsNeverDeleted ==
  \A i \in 1..Len(req.log) :
    req.log[i].op = "delete" => req.log[i].url \notin Range(UploadedUrls(req.session))

\* C35: whenever an edit request has finished, with success or with an error,
\* every locator in the stored processedMedia refers to a file that exists.
C35_ProcessedMediaExists ==
  (req.pc = "done" /\ req.kind = "edit" /\ req.sessionId \in DOMAIN redis) =>
    \A u \in Range(ProcessedMediaOf(redis[req.sessionId])) : u \in files

(* ------------------------ concurrent session calls --------------------- *)
\* C36: of two concurrent validateSession calls on an identifier not seen
\* before, the createSessionWithId of one never erases what is already stored
\* in the session: a creating write that lands on a stored session leaves its
\* media, transcripts, Processed Content and histories as they were.
C36_CreateErasesNothing ==
  [][\A c \in Clients :
       ( /\ calls[c].op = "validate" /\ calls[c].pc = "set" /\ calls'[c].wrote
         /\ calls[c].sessionId \in DOMAIN redis )
       => LET before == redis[calls[c].sessionId]
              after == redis'[calls[c].sessionId]
          IN /\ after.uploadedMedia = before.uploadedMedia
             /\ after.voiceTranscripts = before.voiceTranscripts
             /\ after.processedContent = before.processedContent
             /\ after.conversationHistory = before.conversationHistory]_vars

\* C37: under any interleaving, what addMediaToSession, addTranscriptToSession
\* and addToConversationHistory have appended is never removed by the write of
\* another request's store, addMedia, addTranscript or history call: such a
\* write leaves every stored list with its earlier entries in place.
C37_AppendsSurviveOtherWrites ==
  [][\A c \in Clients :
       ( /\ calls[c].op \in {"store", "addMedia", "addTranscript", "history"}
         /\ calls[c].pc = "set" /\ calls'[c].wrote
         /\ calls[c].sessionId \in DOMAIN redis )
       => LET before == redis[calls[c].sessionId]
              after == redis'[calls[c].sessionId]
              Kept(xs, ys) == Len(xs) <= Len(ys) /\ SubSeq(ys, 1, Len(xs)) = xs
          IN /\ Kept(before.uploadedMedia, after.uploadedMedia)
             /\ Kept(before.voiceTranscripts, after.voiceTranscripts)
             /\ Kept(before.conversationHistory.caption, after.conversationHistory.caption)
             /\ Kept(before.conversationHistory.hashtags, after.conversationHistory.hashtags)]_vars

(* ------------------------ the shape of a history ----------------------- *)
\* C38: the stored history of every capability has even length and is made
\* of whole exchanges, a user turn followed by the assistant turn pushed with
\* it; the turns the cap has evicted are whole exchanges too, so what is kept
\* begins with a user turn.
C38_HistoryIsWholeExchanges ==
  \A s \in HistorySessions, c \in Capabilities :
    LET h == redis[s].conversationHistory[c]
        evicted == Len(appended[<<s, c>>]) - Len(h)
    IN /\ Len(h) % 2 = 0
       /\ evicted % 2 = 0
       /\ \A k \in 1..(Len(h) \div 2) :
            /\ h[2 * k - 1].role = "user"
            /\ h[2 * k].role = "assistant"
            /\ h[2 * k - 1] = appended[<<s, c>>][evicted + 2 * k - 1]
            /\ h[2 * k] = appended[<<s, c>>][evicted + 2 * k]

\* a sixth exchange has been added to a full history: the first exchange is
\* gone and the second one is now the oldest
C38_Witness ==
  \E s \in HistorySessions, c \in Capabilities :
    /\ Len(appended[<<s, c>>]) > HistoryCap
    /\ Len(redis[s].conversationHistory[c]) = HistoryCap
    /\ redis[s].conversationHistory[c][1] = appended[<<s, c>>][3]
    /\ redis[s].conversationHistory[c][1].role = "user"

(* --------------------------- a write that fails ------------------------ *)
\* C39: when the store write fails during storeProcessedContent,
\* addToConversationHistory, addMediaToSession or createSessionWithId, the
\* call raises no error and returns the session object it built, as it does
\* on success, while what is stored stays as it was.
C39_FailedWriteIsSilent ==
  [][\A c \in Clients :
       ( /\ calls[c].op \in {"store", "history", "addMedia", "validate"}
         /\ calls[c].pc = "set" /\ calls'[c].pc = "done" /\ ~calls'[c].wrote )
       => /\ calls'[c].result = "ok"
          /\ calls'[c].session =
               IF calls[c].op = "validate"
               THEN NewSession(calls[c].sessionId, calls[c].now)
               ELSE Mutated(calls[c].op, c, calls[c].snapshot, calls[c].content,
                            calls[c].now)
          /\ redis' = redis]_vars

\* a storeProcessedContent call has returned its session with the caption
\* after a failed write, and the stored session has no Processed Content
C39_Witness ==
  \E c \in Clients :
    /\ calls[c].op = "store" /\ calls[c].pc = "done" /\ ~calls[c].wrote
    /\ calls[c].result = "ok"
    /\ DOMAIN calls[c].content = {"caption"}
    /\ ~calls[c].session.processedContent.null
    /\ calls[c].sessionId \in DOMAIN redis
    /\ redis[calls[c].sessionId].processedContent.null

(* ------------------------ image generation retries --------------------- *)
\* C40: generateImageWithRetry always terminates, after at most
\* maxRetries + 1 attempts (3 by default): it returns the result of the first
\* attempt that succeeds and makes no further attempt, and if every attempt
\* fails it throws the error of the last one.
C40_RetriesTerminate ==
  /\ [] LET n == Len(imagen.attempts)
            Failed(k) == imagen.attempts[k] # "ok"
        IN /\ n <= imagen.maxRetries + 1
           /\ imagen.pc \in {"call", "wait"} => \A k \in 1..n : Failed(k)
           /\ imagen.pc = "returned"
                => /\ n >= 1 /\ ~Failed(n) /\ \A k \in 1..(n - 1) : Failed(k)
                   /\ imagen.result = n
           /\ imagen.pc = "threw"
                => /\ n = imagen.maxRetries + 1 /\ \A k \in 1..n : Failed(k)
                   /\ imagen.thrown = [attempt |-> n, error |-> imagen.attempts[n]]
  /\ <>(imagen.pc \in {"returned", "threw"})

\* a call with the default maxRetries has returned the images of its third
\* attempt, after waiting 1000 ms and then 2000 ms
C40_Witness ==
  /\ imagen.maxRetries = DefaultMaxRetries
  /\ imagen.pc = "returned"
  /\ Len(imagen.attempts) = 3
  /\ imagen.result = 3
  /\ imagen.waited = 3000
====
